---------------------------- MODULE Spec2Model ----------------------------
(***************************************************************************)
(* Model of the nested 2D convolution forward template of the graph        *)
(* compiler backend (gen_nested_conv_fwd_t, nested_conv_fwd.cpp):          *)
(*   - the thread-space partition block_split,                            *)
(*   - the constructor of the problem descriptor,                          *)
(*   - the blocking planner get_default_config,                            *)
(*   - generate with its four loop-nest emitters.                          *)
(* An emitted plan is the set of micro-kernel (brgemm) calls and of output *)
(* fusion anchors that the loop nest issues, each tagged with the loop     *)
(* indices under which it is issued.                                       *)
(***************************************************************************)
EXTENDS Integers, Sequences, FiniteSets, TLC

VARIABLES pc, args, self, cfg, plan, run, part, cfg_again, sched

vars == <<pc, args, self, cfg, plan, run, part, cfg_again, sched>>

(***************************************************************************)
(* Arithmetic helpers.                                                     *)
(***************************************************************************)
Min(a, b) == IF a < b THEN a ELSE b

Abs(a) == IF a < 0 THEN 0 - a ELSE a

SetMax(S) == CHOOSE x \in S : \A y \in S : y <= x

SetMin(S) == CHOOSE x \in S : \A y \in S : x <= y

\* utils::divide_and_ceil
divide_and_ceil(x, y) == (x + y - 1) \div y

\* the divisors of x (get_splits / utils::get_factors return them ascending)
Divisors(x) == {d \in 1..x : x % d = 0}

(***************************************************************************)
(* 4.1 Thread-space partition.                                             *)
(*   used_threads      = min(thread_count, total_blocks)                   *)
(*   blocks_per_thread = ceil(total_blocks / used_threads)                 *)
(*   tail              = total_blocks - blocks_per_thread*(used_threads-1) *)
(***************************************************************************)
block_split(total, num_threads) ==
  LET used == Min(num_threads, total)
      pt   == divide_and_ceil(total, used)
  IN [used_threads |-> used,
      num_block_pt |-> pt,
      tail_num_block_pt |-> total - pt * (used - 1)]

\* a faulty selection: every thread takes the tail share
num_block_select_tail_only(p, bs) == bs.tail_num_block_pt

\* make_select(p < used - 1, num_block_pt, tail_num_block_pt)
num_block_select(p, bs) ==
  IF p < bs.used_threads - 1 THEN bs.num_block_pt ELSE bs.tail_num_block_pt

(***************************************************************************)
(* Null values of the variables a specification does not use.              *)
(***************************************************************************)
NoArgs == [none |-> TRUE]

NoSelf == [none |-> TRUE]

NoCfg == [none |-> TRUE]

NoPlan == [none |-> TRUE]

NoRun == [none |-> TRUE]

NoPart == [none |-> TRUE]

NoSched == [none |-> TRUE]

(***************************************************************************)
(* 4.2 Problem descriptor: gen_nested_conv_fwd_t::gen_nested_conv_fwd_t.   *)
(* args holds the constructor arguments (plain dims of input, weight and   *)
(* output, stride, pads_begin, input dtype, layouts) and the machine       *)
(* (thread count, AMX flag, L2 size).  Sequences are 1-based: C++ index i  *)
(* is index i + 1 here.                                                    *)
(***************************************************************************)
ctor_fields(a) ==
  LET input_plain_dims  == a.in_dims
      weight_plain_dims == a.w_dims
      out_plain_dims    == a.out_dims
      stride            == a.stride
      pads_begin        == a.pads_begin
      ndims_ == Len(input_plain_dims)
      is_3d_ == (ndims_ = 5)
      is_1d_ == (ndims_ = 3)
      mb_ == input_plain_dims[1]
      ic_ == input_plain_dims[2]
      id_ == IF is_3d_ THEN input_plain_dims[3] ELSE 1
      ih_ == IF is_1d_ THEN 1 ELSE input_plain_dims[ndims_ - 1]
      iw_ == input_plain_dims[ndims_]
      oc_ == weight_plain_dims[1]
      kd_ == IF is_3d_ THEN weight_plain_dims[3] ELSE 1
      kh_ == IF is_1d_ THEN 1 ELSE weight_plain_dims[ndims_ - 1]
      kw_ == weight_plain_dims[ndims_]
      od_ == IF is_3d_ THEN out_plain_dims[3] ELSE 1
      oh_ == IF is_1d_ THEN 1 ELSE out_plain_dims[ndims_ - 1]
      ow_ == out_plain_dims[ndims_]
      is_1x1_conv_ == (kd_ = 1 /\ kh_ = 1 /\ kw_ = 1)
      pd_ == IF is_3d_ THEN pads_begin[1] ELSE 0
      ph_ == IF Len(pads_begin) > 1 THEN pads_begin[ndims_ - 3]
             ELSE IF is_1d_ THEN 0 ELSE pads_begin[1]
      pw_ == IF Len(pads_begin) > 1 THEN pads_begin[ndims_ - 2]
             ELSE pads_begin[1]
      sd_ == IF is_3d_ THEN stride[1] ELSE 1
      sh_ == IF Len(stride) > 1 THEN stride[Len(stride) - 1]
             ELSE IF is_1d_ THEN 1 ELSE stride[1]
      sw_ == IF Len(stride) > 1 THEN stride[Len(stride)] ELSE stride[1]
      actual_os_ == oh_ * ow_
      num_elems_skip_per_ow_ == ((kw_ - 1) \div sw_) * sh_ + (sh_ - 1) * ow_
      adj_os_ == Min(actual_os_ + num_elems_skip_per_ow_ * (oh_ - 1),
                     (ih_ + 2 * ph_) * (iw_ + 2 * pw_))
      is_int8 == a.input_int8
      has_pad == (pd_ > 0) \/ (ph_ > 0) \/ (pw_ > 0)
      try_os_blocking_ == (~is_1x1_conv_) /\ (~has_pad) /\ (~is_3d_) /\ is_int8
      use_nested_2d_ == (~is_1d_) /\ (~is_3d_)
  IN [ndims_ |-> ndims_, is_3d_ |-> is_3d_, is_1d_ |-> is_1d_,
      mb_ |-> mb_, ic_ |-> ic_, id_ |-> id_, ih_ |-> ih_, iw_ |-> iw_,
      oc_ |-> oc_, kd_ |-> kd_, kh_ |-> kh_, kw_ |-> kw_,
      od_ |-> od_, oh_ |-> oh_, ow_ |-> ow_,
      is_1x1_conv_ |-> is_1x1_conv_,
      pd_ |-> pd_, ph_ |-> ph_, pw_ |-> pw_,
      sd_ |-> sd_, sh_ |-> sh_, sw_ |-> sw_,
      actual_os_ |-> actual_os_,
      num_elems_skip_per_ow_ |-> num_elems_skip_per_ow_,
      adj_os_ |-> adj_os_,
      has_pad |-> has_pad,
      try_os_blocking_ |-> try_os_blocking_,
      use_nested_2d_ |-> use_nested_2d_,
      blocking_input_ |-> a.blocking_input,
      blocking_output_ |-> a.blocking_output]

\* a faulty constructor check: the padding assertion is missing
ctor_ok_without_pad_check(f) == f.use_nested_2d_

\* COMPILE_ASSERT(!has_pad, ...) and COMPILE_ASSERT(use_nested_2d_, ...)
ctor_ok(f) == (~f.has_pad) /\ f.use_nested_2d_

\* a faulty constructor: row packing is made eligible whatever the input type
Construct_os_blocking_any_dtype ==
  /\ pc = "start"
  /\ LET f == ctor_fields(args)
     IN IF ctor_ok(f)
        THEN /\ pc' = "constructed"
             /\ self' = [f EXCEPT !.try_os_blocking_ = ~f.is_1x1_conv_]
        ELSE pc' = "ctor_error" /\ self' = NoSelf
  /\ UNCHANGED <<args, cfg, plan, run, part, cfg_again, sched>>

\* The constructor either yields the object or throws.
Construct ==
  /\ pc = "start"
  /\ LET f == ctor_fields(args)
     IN IF ctor_ok(f)
        THEN pc' = "constructed" /\ self' = f
        ELSE pc' = "ctor_error" /\ self' = NoSelf
  /\ UNCHANGED <<args, cfg, plan, run, part, cfg_again, sched>>

\* Constructor arguments of a convolution whose input extent fits the output
\* extent exactly: in = (out - 1) * stride + kernel - 2 * pad.
conv_args(ndims, mb, ic, oc, o, k, s, pads, int8, bin, bout, mach) ==
  LET sp(i) == (o[i] - 1) * s[i] + k[i] - 2 * pads[i]
      sel(q) == IF ndims = 5 THEN q
                ELSE IF ndims = 4 THEN <<q[2], q[3]>> ELSE <<q[3]>>
      i3     == <<sp(1), sp(2), sp(3)>>
  IN [in_dims  |-> <<mb, ic>> \o sel(i3),
      w_dims   |-> <<oc, ic>> \o sel(k),
      out_dims |-> <<mb, oc>> \o sel(o),
      stride |-> sel(s), pads_begin |-> sel(pads),
      input_int8 |-> int8, blocking_input |-> bin, blocking_output |-> bout,
      num_threads |-> mach.num_threads, use_amx |-> mach.use_amx,
      L2_cache_size |-> mach.L2_cache_size, fusion |-> mach.fusion]

(***************************************************************************)
(* 4.3 Blocking planner: gen_nested_conv_fwd_t::get_default_config.        *)
(***************************************************************************)
\* utils::get_blocks(X, floor, ceiling).back(): the largest candidate block
\* of X not exceeding the cap
get_blocks_back(X, floor, ceiling) ==
  SetMax({d \in floor..Min(X, ceiling) : X % d = 0})

\* get_os_blocks(ow, adj_os): the candidate spatial blocks, the factors of
\* the output width and of the adjusted output size
get_os_blocks(ow, adj_os) == Divisors(ow) \cup Divisors(adj_os)

default_block == 128

os_block_ceiling == 800

amx_w_block_cap == 256

\* the lambda get_suitable_block, a left-to-right scan of the ascending
\* splits; `rest` is the set of splits not yet visited
RECURSIVE suitable_scan(_, _, _, _, _)
suitable_scan(total, original_block, threads, rest, suitable_block) ==
  IF rest = {} THEN suitable_block
  ELSE LET split == SetMin(rest)
           num_block == total \div split
           take == /\ num_block % threads = 0
                   /\ \/ (total \div suitable_block) % threads # 0
                      \/ Abs(original_block - split)
                           < Abs(original_block - suitable_block)
       IN suitable_scan(total, original_block, threads, rest \ {split},
                        IF take THEN split ELSE suitable_block)

get_suitable_block(total, original_block, splits, threads) ==
  suitable_scan(total, original_block, threads, splits, original_block)

\* lines 72-115: thread geometry and channel micro-blocks
plan_threads(f, num_threads) ==
  LET thread_split == Divisors(num_threads)
      bs_threads ==
        IF f.mb_ > num_threads \/ (f.mb_ = num_threads /\ f.oc_ <= 128)
        THEN num_threads
        ELSE SetMax({sp \in thread_split : sp = 1 \/ sp < f.mb_})
      oc_threads == num_threads \div bs_threads
      im_oc0 == get_blocks_back(f.oc_, 1, default_block)
      im_oc_num_block == f.oc_ \div im_oc0
      im_oc_block ==
        IF oc_threads # 1 /\ im_oc_num_block % oc_threads # 0
        THEN get_suitable_block(f.oc_, im_oc0, Divisors(f.oc_), oc_threads)
        ELSE im_oc0
  IN [bs_threads |-> bs_threads, oc_threads |-> oc_threads,
      h_threads |-> 1, w_threads |-> 1,
      im_oc_block |-> im_oc_block,
      im_ic_block |-> get_blocks_back(f.ic_, 1, default_block),
      im_h_block |-> 1, im_w_block |-> f.ow_,
      h_block |-> f.oh_, w_block |-> f.ow_,
      K_block |-> 0, C_block |-> 0, pack_input |-> 0]

\* lines 117-167: the row-packing (os blocking) adjustments
plan_os_blocking(f, c0, num_threads, use_amx) ==
  LET os_blocks == get_os_blocks(f.ow_, f.adj_os_)
      under == {b \in os_blocks : b < os_block_ceiling}
      im_w1 == IF f.ow_ > 28 /\ use_amx
               THEN get_blocks_back(f.ow_, 1, amx_w_block_cap)
               ELSE IF under # {} THEN SetMax(under) ELSE SetMax(os_blocks)
      pack_rows1 == (im_w1 > 0 /\ f.ow_ % im_w1 # 0)
      w_block1 == IF pack_rows1 THEN f.adj_os_ ELSE f.actual_os_
      special == (f.mb_ = 1 /\ num_threads = 4)
      im_w2 == IF special THEN get_blocks_back(f.ow_, 1, amx_w_block_cap)
               ELSE im_w1
      bs2 == IF special THEN 1 ELSE c0.bs_threads
      oc2 == IF special THEN (IF f.oc_ >= 512 THEN num_threads ELSE 1)
             ELSE c0.oc_threads
      h2  == IF special THEN (IF f.oc_ >= 512 THEN 1 ELSE num_threads)
             ELSE c0.h_threads
      w2  == IF special THEN 1 ELSE c0.w_threads
      im_oc2 == IF special
                THEN Min(get_blocks_back(f.oc_, 1, default_block),
                         f.oc_ \div oc2)
                ELSE c0.im_oc_block
      w_block2 == IF special
                  THEN divide_and_ceil(divide_and_ceil(f.actual_os_, im_w2), w2)
                         * im_w2
                  ELSE w_block1
      pack_rows2 == (im_w2 > 0 /\ f.ow_ % im_w2 # 0)
      im_h3 == IF ~pack_rows2 THEN 1 ELSE c0.im_h_block
      h_block3 == IF ~pack_rows2
                  THEN (IF h2 = 1 THEN f.oh_
                        ELSE divide_and_ceil(divide_and_ceil(f.oh_, im_h3), h2)
                               * im_h3)
                  ELSE c0.h_block
      w_block3 == IF ~pack_rows2
                  THEN (IF w2 = 1 THEN f.ow_
                        ELSE divide_and_ceil(divide_and_ceil(f.ow_, im_w2), w2)
                               * im_w2)
                  ELSE w_block2
  IN [c0 EXCEPT !.bs_threads = bs2, !.oc_threads = oc2, !.h_threads = h2,
                !.w_threads = w2, !.im_oc_block = im_oc2,
                !.im_w_block = im_w2, !.im_h_block = im_h3,
                !.h_block = h_block3, !.w_block = w_block3]

\* a faulty halving: two height threads are taken and the batch threads kept
bs_threads_kept(bs_threads) == bs_threads

\* line 176: the batch threads that remain when two height threads are taken
halved_bs_threads(bs_threads) == bs_threads \div 2

\* lines 169-213: the 1x1 adjustments
plan_1x1(f, c0, num_threads) ==
  LET fuse_rows == (f.ic_ >= 256 /\ f.oc_ >= 256 /\ f.oh_ <= 14)
      halve == (~fuse_rows) /\ f.oh_ >= 28 /\ c0.bs_threads % 2 = 0
      im_h1 == IF fuse_rows THEN f.oh_ ELSE 1
      h1  == IF halve THEN 2 ELSE c0.h_threads
      bs1 == IF halve THEN halved_bs_threads(c0.bs_threads)
             ELSE c0.bs_threads
      special == (f.mb_ = 1 /\ num_threads = 4)
      big == (f.oc_ >= 512 /\ f.ic_ >= 512)
      bs2 == IF special THEN 1 ELSE bs1
      oc2 == IF special THEN (IF big THEN num_threads ELSE 1)
             ELSE c0.oc_threads
      h2  == IF special THEN (IF big THEN 1 ELSE num_threads) ELSE h1
      w2  == IF special THEN 1 ELSE c0.w_threads
      im_h2 == IF special /\ ~big THEN 1 ELSE im_h1
      im_w2 == IF special THEN f.ow_ ELSE c0.im_w_block
      im_oc3 == Min(get_blocks_back(f.oc_, 1, default_block), f.oc_ \div oc2)
      im_w3 == IF im_h2 = 1 /\ im_oc3 = default_block
                  /\ c0.im_ic_block = default_block
               THEN (IF f.ow_ >= 56 /\ f.ow_ % 2 = 0 THEN f.ow_ \div 2
                     ELSE IF f.sw_ = 1 /\ f.ow_ >= 28 /\ f.oc_ >= f.ic_
                             /\ f.oc_ >= 512
                          THEN f.ow_ \div 2
                          ELSE f.ow_)
               ELSE im_w2
      h_block3 == IF h2 = 1 THEN f.oh_
                  ELSE divide_and_ceil(divide_and_ceil(f.oh_, im_h2), h2) * im_h2
  IN [c0 EXCEPT !.bs_threads = bs2, !.oc_threads = oc2, !.h_threads = h2,
                !.w_threads = w2, !.im_h_block = im_h2, !.im_w_block = im_w3,
                !.im_oc_block = im_oc3, !.h_block = h_block3]

\* lines 215-224: the outer channel blocks
plan_outer_blocks(f, c) ==
  LET ic_threads == 1
      K0 == divide_and_ceil(divide_and_ceil(f.oc_, c.im_oc_block), c.oc_threads)
              * c.im_oc_block
      K_block == IF f.oc_ % K0 # 0 THEN c.im_oc_block ELSE K0
      C0 == divide_and_ceil(divide_and_ceil(f.ic_, c.im_ic_block), ic_threads)
              * c.im_ic_block
      C_block == IF f.ic_ % C0 # 0 THEN c.im_ic_block ELSE C0
  IN [c EXCEPT !.K_block = K_block, !.C_block = C_block]

\* lines 72-213: the thread counts and the micro blocks, as they stand when
\* the outer channel blocks are computed
plan_micro_blocks(f, num_threads, use_amx) ==
  LET c1 == plan_threads(f, num_threads)
      c2 == IF f.try_os_blocking_
            THEN plan_os_blocking(f, c1, num_threads, use_amx) ELSE c1
  IN IF f.is_1x1_conv_ THEN plan_1x1(f, c2, num_threads) ELSE c2

\* lines 215-218: divide_and_ceil(oc_, im_oc_block) and oc_ % K_block divide
\* by im_oc_block, which line 195 has set to min(.., oc_ / oc_threads)
plan_divides_by_zero(c) == c.im_oc_block = 0

get_default_config(f, num_threads, use_amx) ==
  plan_outer_blocks(f, plan_micro_blocks(f, num_threads, use_amx))

\* The planner runs on a constructed descriptor of a 2D problem.  An integer
\* division by zero is undefined: the call traps, or it goes on with some
\* value in place of K_block.
Plan ==
  /\ pc = "constructed"
  /\ self.use_nested_2d_
  /\ LET c == plan_micro_blocks(self, args.num_threads, args.use_amx)
     IN IF ~plan_divides_by_zero(c)
        THEN /\ cfg' = plan_outer_blocks(self, c)
             /\ pc' = "planned"
        ELSE \/ /\ cfg' = NoCfg
                /\ pc' = "plan_crashed"
             \/ /\ cfg' \in {[c EXCEPT !.K_block = K] : K \in 0..self.oc_}
                /\ pc' = "plan_undefined"
  /\ UNCHANGED <<args, self, plan, run, part, cfg_again, sched>>

\* a faulty second call: the planner takes its thread count from what the
\* previous call left behind
PlanAgain_from_previous ==
  /\ pc = "planned"
  /\ cfg_again' = get_default_config(self, cfg.oc_threads, args.use_amx)
  /\ pc' = "planned_again"
  /\ UNCHANGED <<args, self, cfg, plan, run, part, sched>>

\* A second call of the planner on the same descriptor and machine.  The
\* method is const and reads the descriptor fields, the thread count and the
\* AMX flag only.
PlanAgain ==
  /\ pc = "planned"
  /\ cfg_again' = get_default_config(self, args.num_threads, args.use_amx)
  /\ pc' = "planned_again"
  /\ UNCHANGED <<args, self, cfg, plan, run, part, sched>>

(***************************************************************************)
(* 4.4 Loop-nest emitters.                                                 *)
(* A micro-kernel call is recorded with the loop indices under which it is *)
(* issued (outer_k, pbs, ph, pw, poc, pic: the parallel axes; o_*: the     *)
(* per-thread block loops; i_*: the micro-block loops), its destination    *)
(* (batch n, output-channel micro-block oc, row h, column w, M consecutive *)
(* output positions starting there, flattened row-major as q0 = h*ow + w), *)
(* whether it initializes the destination (brgemm_init_list_update) or     *)
(* accumulates (brgemm_list_update), and the set of input-channel          *)
(* micro-blocks whose pointers are in its A/B lists.                       *)
(***************************************************************************)
\* p * num_block_pt * block / im_block + o * block / im_block + i
blk_index(p, num_block_pt, block, im_block, o, i) ==
  (p * num_block_pt * block) \div im_block + (o * block) \div im_block + i

\* the four block_split calls at the head of every emitter
splits_of(f, c, os) ==
  LET ic_threads == 1
  IN [oc |-> block_split(divide_and_ceil(f.oc_, c.K_block), c.oc_threads),
      oh |-> block_split(divide_and_ceil(f.oh_, c.h_block), c.h_threads),
      ow |-> block_split(divide_and_ceil(f.ow_, c.w_block), c.w_threads),
      os |-> block_split(divide_and_ceil(os, c.w_block), c.w_threads),
      ic |-> block_split(divide_and_ceil(f.ic_, c.C_block), ic_threads)]

\* the block_split calls of the row-packed emitter, which has no height axis
splits_of_os(f, c, os) ==
  LET ic_threads == 1
  IN [oc |-> block_split(divide_and_ceil(f.oc_, c.K_block), c.oc_threads),
      os |-> block_split(divide_and_ceil(os, c.w_block), c.w_threads),
      ic |-> block_split(divide_and_ceil(f.ic_, c.C_block), ic_threads)]

\* the input-channel micro-blocks gathered into A_list / B_list
ic_list(f, c, sp, pic, o_ic) ==
  {ic \in {blk_index(pic, sp.ic.num_block_pt, c.C_block, c.im_ic_block, o_ic, i_c) :
             i_c \in 0..(c.C_block \div c.im_ic_block - 1)} :
     ic * c.im_ic_block < f.ic_}

\* if (ic_num_block_pt > 1) { _if_(o_ic == 0) init _else_ update } else init
init_when_first(sp, o_ic) == IF sp.ic.num_block_pt > 1 THEN o_ic = 0 ELSE TRUE

call_rec(k, pbs, ph, pw, poc, pic, o_h, o_w, o_oc, o_ic, i_h, i_w, i_oc, im_h_i, n, oc, h, w, q0, M, init, ics, idx, oob) ==
  [outer_k |-> k, pbs |-> pbs, ph |-> ph, pw |-> pw, poc |-> poc, pic |-> pic,
   o_h |-> o_h, o_w |-> o_w, o_oc |-> o_oc, o_ic |-> o_ic,
   i_h |-> i_h, i_w |-> i_w, i_oc |-> i_oc, im_h_i |-> im_h_i,
   n |-> n, oc |-> oc, h |-> h, w |-> w, q0 |-> q0, M |-> M,
   init |-> init, ics |-> ics, idx |-> idx, oob |-> oob]

\* the loop indices of the active threads and their block loops:
\* lpbs, lph, lpw, lpoc, lpic, the thread guard, loh, low, looc, loic, cond
nest_blocks(f, c, sp) ==
  {t \in [pbs : 0..(f.mb_ - 1), ph : 0..(c.h_threads - 1),
          pw : 0..(c.w_threads - 1), poc : 0..(c.oc_threads - 1), pic : {0},
          o_h : 0..(sp.oh.num_block_pt - 1), o_w : 0..(sp.ow.num_block_pt - 1),
          o_oc : 0..(sp.oc.num_block_pt - 1),
          o_ic : 0..(sp.ic.num_block_pt - 1)] :
     /\ t.ph < sp.oh.used_threads /\ t.pw < sp.ow.used_threads
     /\ t.poc < sp.oc.used_threads /\ t.pic < sp.ic.used_threads
     /\ t.o_h < num_block_select(t.ph, sp.oh)
     /\ t.o_w < num_block_select(t.pw, sp.ow)
     /\ t.o_oc < num_block_select(t.poc, sp.oc)
     /\ t.o_ic < num_block_select(t.pic, sp.ic)}

h_of(c, sp, t, i_h) ==
  blk_index(t.ph, sp.oh.num_block_pt, c.h_block, c.im_h_block, t.o_h, i_h)
    * c.im_h_block

w_of(c, sp, t, i_w) ==
  blk_index(t.pw, sp.ow.num_block_pt, c.w_block, c.im_w_block, t.o_w, i_w)
    * c.im_w_block

oc_of(c, sp, t, i_oc) ==
  blk_index(t.poc, sp.oc.num_block_pt, c.K_block, c.im_oc_block, t.o_oc, i_oc)

\* compute_1x1_pack_input_nested, lines 469-610: one call of
\* M = im_h_block * im_w_block rows per (i_h, i_w, i_oc)
calls_1x1_pack(f, c) ==
  LET sp == splits_of(f, c, f.actual_os_)
  IN UNION {
       LET h == h_of(c, sp, t, i_h)
           w == w_of(c, sp, t, i_w)
           oc == oc_of(c, sp, t, i_oc)
       IN IF h < f.oh_ /\ w < f.ow_ /\ oc * c.im_oc_block < f.oc_
          THEN {call_rec(0, t.pbs, t.ph, t.pw, t.poc, t.pic,
                         t.o_h, t.o_w, t.o_oc, t.o_ic, i_h, i_w, i_oc, 0,
                         t.pbs, oc, h, w, h * f.ow_ + w,
                         c.im_h_block * c.im_w_block,
                         init_when_first(sp, t.o_ic),
                         ic_list(f, c, sp, t.pic, t.o_ic), 0, FALSE)}
          ELSE {} :
       t \in nest_blocks(f, c, sp),
       i_h \in 0..(c.h_block \div c.im_h_block - 1),
       i_w \in 0..(c.w_block \div c.im_w_block - 1),
       i_oc \in 0..(c.K_block \div c.im_oc_block - 1)}

\* compute_1x1_pack_input_nested, lines 352-395: the strided input is copied
\* into input_tmp when the pack flag is 1, else the emitter reads the input
packs_input(f, c) == c.pack_input = 1 /\ (f.sd_ > 1 \/ f.sh_ > 1 \/ f.sw_ > 1)

\* a faulty copy pass: the strides are dropped
packed_input_unstrided(f, p, q) == <<p, q>>

\* input_tmp[n, p, q, c] = input[n, p * sh_, q * sw_, c]: the position
\* <<row, column>> of the input that input_tmp holds at (p, q)
packed_input(f, p, q) == <<p * f.sh_, q * f.sw_>>

\* the position of the input that row r of the A operand of a call of the
\* packed 1x1 emitter is read from: A_list points at input1[n, h, w, ic] and
\* the rows follow each other in input1 (LDA is one position)
a_row_1x1_pack(f, c, cl, r) ==
  LET W1 == IF packs_input(f, c) THEN f.ow_ ELSE f.iw_
      off == cl.h * W1 + cl.w + r
  IN IF packs_input(f, c) THEN packed_input(f, off \div W1, off % W1)
     ELSE <<off \div W1, off % W1>>

\* the same for the unpacked 1x1 emitter: A_list points at
\* input[n, (h + im_h_i) * sh_, w * sw_, ic] and LDA is sw_ positions
a_row_1x1_no_pack(f, c, cl, r) ==
  LET off == cl.h * f.sh_ * f.iw_ + cl.w * f.sw_ + r * f.sw_
  IN <<off \div f.iw_, off % f.iw_>>

\* compute_1x1_no_pack_input_nested, lines 846-994: one call of
\* M = im_w_block rows per (i_h, i_w, i_oc, im_h_i)
calls_1x1_no_pack(f, c) ==
  LET sp == splits_of(f, c, f.actual_os_)
  IN UNION {
       LET h == h_of(c, sp, t, i_h)
           w == w_of(c, sp, t, i_w)
           oc == oc_of(c, sp, t, i_oc)
       IN IF w < f.ow_ /\ oc * c.im_oc_block < f.oc_ /\ h + im_h_i < f.oh_
          THEN {call_rec(0, t.pbs, t.ph, t.pw, t.poc, t.pic,
                         t.o_h, t.o_w, t.o_oc, t.o_ic, i_h, i_w, i_oc, im_h_i,
                         t.pbs, oc, h + im_h_i, w, (h + im_h_i) * f.ow_ + w,
                         c.im_w_block,
                         init_when_first(sp, t.o_ic),
                         ic_list(f, c, sp, t.pic, t.o_ic), 0, FALSE)}
          ELSE {} :
       t \in nest_blocks(f, c, sp),
       i_h \in 0..(c.h_block \div c.im_h_block - 1),
       i_w \in 0..(c.w_block \div c.im_w_block - 1),
       i_oc \in 0..(c.K_block \div c.im_oc_block - 1),
       im_h_i \in 0..(c.im_h_block - 1)}

\* utils::get_sizeof_type(get_weight_dtype()): s8 weights for 8-bit input,
\* f32 otherwise
weight_sizeof(int8) == IF int8 THEN 1 ELSE 4

\* a faulty split: the search over the factors of num_block is missing
oc_split_without_search(f, c, m, oc_num_block_pt) ==
  LET parallel_space_is_enough ==
        (f.mb_ % m.num_threads = 0)
          \/ (divide_and_ceil(f.mb_, m.num_threads) > 8)
      weight_size ==
        f.oc_ * f.ic_ * f.kh_ * f.kw_ * weight_sizeof(m.input_int8)
      num_block == c.K_block \div c.im_oc_block
      expected_split_num == divide_and_ceil(weight_size, m.L2_cache_size)
  IN IF weight_size >= m.L2_cache_size /\ parallel_space_is_enough
        /\ c.oc_threads = 1 /\ oc_num_block_pt = 1
     THEN (IF num_block < expected_split_num THEN 1 ELSE expected_split_num)
     ELSE 1

\* the oc_split computation shared by the two non-1x1 emitters
oc_split_of(f, c, m, oc_num_block_pt) ==
  LET parallel_space_is_enough ==
        (f.mb_ % m.num_threads = 0)
          \/ (divide_and_ceil(f.mb_, m.num_threads) > 8)
      weight_size ==
        f.oc_ * f.ic_ * f.kh_ * f.kw_ * weight_sizeof(m.input_int8)
      num_block == c.K_block \div c.im_oc_block
      expected0 == divide_and_ceil(weight_size, m.L2_cache_size)
      larger == {x \in Divisors(num_block) : x >= expected0}
      expected_split_num == IF larger = {} THEN expected0 ELSE SetMin(larger)
  IN IF weight_size >= m.L2_cache_size /\ parallel_space_is_enough
        /\ c.oc_threads = 1 /\ oc_num_block_pt = 1
     THEN (IF num_block < expected_split_num THEN 1 ELSE expected_split_num)
     ELSE 1

\* compute_conv_no_padding_nested, lines 1550-1715: one call of
\* M = im_w_block rows per (outer_k, i_h, i_w, i_oc, im_h_i)
calls_conv_no_padding(f, c, m) ==
  LET sp == splits_of(f, c, f.actual_os_)
      oc_split == oc_split_of(f, c, m, sp.oc.num_block_pt)
  IN UNION {
       LET h == h_of(c, sp, t, i_h)
           w == w_of(c, sp, t, i_w)
           oc == (t.poc * sp.oc.num_block_pt * c.K_block) \div c.im_oc_block
                   + (t.o_oc * c.K_block) \div c.im_oc_block
                   + ((outer_k * c.K_block) \div c.im_oc_block) \div oc_split
                   + i_oc
       IN IF w < f.ow_ /\ oc * c.im_oc_block < f.oc_ /\ h + im_h_i < f.oh_
          THEN {call_rec(outer_k, t.pbs, t.ph, t.pw, t.poc, t.pic,
                         t.o_h, t.o_w, t.o_oc, t.o_ic, i_h, i_w, i_oc, im_h_i,
                         t.pbs, oc, h + im_h_i, w, (h + im_h_i) * f.ow_ + w,
                         c.im_w_block,
                         init_when_first(sp, t.o_ic),
                         ic_list(f, c, sp, t.pic, t.o_ic), 0, FALSE)}
          ELSE {} :
       outer_k \in 0..(oc_split - 1),
       t \in nest_blocks(f, c, sp),
       i_h \in 0..(c.h_block \div c.im_h_block - 1),
       i_w \in 0..(c.w_block \div c.im_w_block - 1),
       i_oc \in 0..(c.K_block \div c.im_oc_block - 1),
       im_h_i \in 0..(c.im_h_block - 1)}

\* a faulty mask: every flattened position counts as valid
os_mask_all_valid(f, i) == 1

\* generate, lines 1991-2016: the row mask over the adjusted spatial extent
\* and the number of valid positions before each micro-block
os_mask_of(f, i) == IF i % (f.ow_ + f.num_elems_skip_per_ow_) < f.ow_ THEN 1 ELSE 0

RECURSIVE mask_sum(_, _, _)
mask_sum(f, from, to) ==
  IF from >= to THEN 0 ELSE os_mask_of(f, from) + mask_sum(f, from + 1, to)

os_acc_size_of(f, im_s_block) ==
  [i \in 0..(f.adj_os_ \div im_s_block - 1) |-> mask_sum(f, 0, i * im_s_block)]

\* a faulty nest: the guard on the thread indices is missing
nest_blocks_os_unguarded(f, c, sp) ==
  {t \in [pbs : 0..(f.mb_ - 1), ps : 0..(c.w_threads - 1),
          poc : 0..(c.oc_threads - 1), pic : {0},
          o_s : 0..(sp.os.num_block_pt - 1),
          o_oc : 0..(sp.oc.num_block_pt - 1),
          o_ic : 0..(sp.ic.num_block_pt - 1)] :
     /\ t.o_s < num_block_select(t.ps, sp.os)
     /\ t.o_oc < num_block_select(t.poc, sp.oc)
     /\ t.o_ic < num_block_select(t.pic, sp.ic)}

\* lps, lpoc, lpic, the thread guard, los, looc, loic, cond
nest_blocks_os(f, c, sp) ==
  {t \in [pbs : 0..(f.mb_ - 1), ps : 0..(c.w_threads - 1),
          poc : 0..(c.oc_threads - 1), pic : {0},
          o_s : 0..(sp.os.num_block_pt - 1),
          o_oc : 0..(sp.oc.num_block_pt - 1),
          o_ic : 0..(sp.ic.num_block_pt - 1)] :
     /\ t.ps < sp.os.used_threads
     /\ t.poc < sp.oc.used_threads /\ t.pic < sp.ic.used_threads
     /\ t.o_s < num_block_select(t.ps, sp.os)
     /\ t.o_oc < num_block_select(t.poc, sp.oc)
     /\ t.o_ic < num_block_select(t.pic, sp.ic)}

\* compute_conv_no_padding_os_blocking_nested, lines 1251-1372: one masked
\* call per (outer_k, i_oc, i_s); it stores the valid positions of
\* micro-block im_s_block_idx contiguously from os_acc_size[im_s_block_idx].
\* The index is not range-checked: beyond os / im_s_block the read of
\* os_acc_size and of the mask is out of bounds (oob).
calls_os_blocking(f, c, m) ==
  LET os == f.adj_os_
      sp == splits_of_os(f, c, os)
      oc_split == oc_split_of(f, c, m, sp.oc.num_block_pt)
      im_s_block == c.im_w_block
      acc == os_acc_size_of(f, im_s_block)
  IN UNION {
       LET oc == (t.poc * sp.oc.num_block_pt * c.K_block) \div c.im_oc_block
                   + (t.o_oc * c.K_block) \div c.im_oc_block
                   + ((outer_k * c.K_block) \div c.im_oc_block) \div oc_split
                   + i_oc
           idx == blk_index(t.ps, sp.os.num_block_pt, c.w_block, im_s_block,
                            t.o_s, i_s)
           oob == idx >= os \div im_s_block
           acc_m == IF os \div im_s_block = 1 \/ oob THEN 0 ELSE acc[idx]
           valid == IF oob THEN 0
                    ELSE mask_sum(f, idx * im_s_block, (idx + 1) * im_s_block)
       IN IF oc * c.im_oc_block < f.oc_
          THEN {call_rec(outer_k, t.pbs, 0, t.ps, t.poc, t.pic,
                         0, t.o_s, t.o_oc, t.o_ic, 0, i_s, i_oc, 0,
                         t.pbs, oc, acc_m \div f.ow_, acc_m % f.ow_, acc_m,
                         valid, TRUE,
                         ic_list(f, c, sp, t.pic, t.o_ic), idx, oob)}
          ELSE {} :
       outer_k \in 0..(oc_split - 1),
       t \in nest_blocks_os(f, c, sp),
       i_oc \in 0..((c.K_block \div c.im_oc_block) \div oc_split - 1),
       i_s \in 0..(c.w_block \div im_s_block - 1)}

\* compute_conv_no_padding_os_blocking_nested, lines 1227 and 1319-1372: the
\* input position <<row, column>> that position j of a call is fed for kernel
\* tap (r, s).  A_list[r, s] points at input[n, h * sh_ + r, w * sw_ + s]
\* with (h, w) the coordinate of the block's first position, and position j
\* is read j * LDA further on, LDA being sw_ input positions.
a_pos_os_blocking(f, c, cl, j, r, s) ==
  LET adj_ow == f.ow_ + f.num_elems_skip_per_ow_
      h == (cl.idx * c.im_w_block) \div adj_ow
      w == (cl.idx * c.im_w_block) % adj_ow
      off == (h * f.sh_ + r) * f.iw_ + w * f.sw_ + s + j * f.sw_
  IN <<off \div f.iw_, off % f.iw_>>

(***************************************************************************)
(* Output fusion anchors (create_output_fusion_anchor).  A published       *)
(* region is kept as element ranges: batch n, channels c0..c0+cn-1, rows   *)
(* h0..h0+hn-1, columns w0..w0+wn-1.  For a blocked output the slice       *)
(* {cb, cbn} x {0, im_oc_block} names channels cb*im_oc_block up to        *)
(* (cb+cbn)*im_oc_block; for a plain output the slice gives them directly. *)
(* level names the loop in whose body the anchor is created and at holds   *)
(* the indices of the enclosing loops.                                     *)
(***************************************************************************)
anchor_rec(f, c, level, at, n, cb, cbn, cp0, cpn, h0, hn, w0, wn) ==
  [level |-> level, at |-> at, n |-> n,
   c0 |-> IF f.blocking_output_ THEN cb * c.im_oc_block ELSE cp0,
   cn |-> IF f.blocking_output_ THEN cbn * c.im_oc_block ELSE cpn,
   h0 |-> h0, hn |-> hn, w0 |-> w0, wn |-> wn]

\* the anchors in the bodies of the thread loops lpic, lpoc, lpw, lph, lpbs:
\* each names {pbs} x the channels of outer_k's share x all rows and columns
thread_anchors(f, c, oc_split) ==
  LET whole(level, at, k, pbs) ==
        anchor_rec(f, c, level, at, pbs,
                   ((k * f.oc_) \div c.im_oc_block) \div oc_split,
                   (f.oc_ \div c.im_oc_block) \div oc_split,
                   (k * f.oc_) \div oc_split, f.oc_ \div oc_split,
                   0, f.oh_, 0, f.ow_)
      K == 0..(oc_split - 1)
      B == 0..(f.mb_ - 1)
      PH == 0..(c.h_threads - 1)
      PW == 0..(c.w_threads - 1)
      POC == 0..(c.oc_threads - 1)
      ic_threads == 1
  IN (IF c.oc_threads = 1 /\ c.h_threads = 1 /\ c.w_threads = 1
         /\ ic_threads = 1
      THEN {whole("lpic", <<k, pbs, ph, pw, poc, 0>>, k, pbs) :
              k \in K, pbs \in B, ph \in PH, pw \in PW, poc \in POC}
      ELSE {})
     \cup
     (IF c.oc_threads = 1 /\ c.h_threads = 1 /\ c.w_threads = 1
      THEN {whole("lpoc", <<k, pbs, ph, pw, poc>>, k, pbs) :
              k \in K, pbs \in B, ph \in PH, pw \in PW, poc \in POC}
      ELSE {})
     \cup
     (IF c.h_threads = 1 /\ c.w_threads = 1
      THEN {whole("lpw", <<k, pbs, ph, pw>>, k, pbs) :
              k \in K, pbs \in B, ph \in PH, pw \in PW}
      ELSE {})
     \cup
     (IF c.h_threads = 1
      THEN {whole("lph", <<k, pbs, ph>>, k, pbs) : k \in K, pbs \in B, ph \in PH}
      ELSE {})
     \cup
     (IF f.mb_ > 1
      THEN {whole("lpbs", <<k, pbs>>, k, pbs) : k \in K, pbs \in B}
      ELSE {})

\* the anchors inside the per-thread block loops of the three row-blocked
\* emitters.  row_level: the anchor after each single-row call (absent in
\* the 1x1 packed emitter, whose call spans the whole micro tile);
\* h_guard: the 1x1 packed emitter guards the body of lih by h < oh;
\* tile_any_ic: the 1x1 unpacked emitter publishes the micro-tile anchor
\* without requiring a single input-channel block per thread.
block_anchors(f, c, sp, oc_split, row_level, h_guard, tile_any_ic) ==
  LET last(t) == t.o_ic = num_block_select(t.pic, sp.ic) - 1
      ic_one == sp.ic.used_threads = 1 /\ sp.ic.num_block_pt = 1
      oc_full == c.K_block * sp.oc.used_threads = f.oc_
      w_full == c.w_block * sp.ow.used_threads = f.ow_
      h_full == c.h_block * sp.oh.used_threads = f.oh_
      anch_c(t, k) ==
        (t.poc * sp.oc.num_block_pt * c.K_block) \div c.im_oc_block
          + (t.o_oc * c.K_block) \div c.im_oc_block
          + ((k * c.K_block) \div c.im_oc_block) \div oc_split
      hok(h) == (~h_guard) \/ h < f.oh_
      K == 0..(oc_split - 1)
      T == {t \in nest_blocks(f, c, sp) : last(t)}
      IH == 0..(c.h_block \div c.im_h_block - 1)
      IW == 0..(c.w_block \div c.im_w_block - 1)
      IOC == 0..(c.K_block \div c.im_oc_block - 1)
      key(k, t) == <<k, t.pbs, t.ph, t.pw, t.poc, t.pic,
                     t.o_h, t.o_w, t.o_oc, t.o_ic>>
  IN UNION {
       LET h == h_of(c, sp, t, i_h)
           w == w_of(c, sp, t, i_w)
           oc == anch_c(t, k) + i_oc
           in == hok(h) /\ w < f.ow_ /\ oc * c.im_oc_block < f.oc_
       IN (IF row_level /\ ic_one /\ in
           THEN {anchor_rec(f, c, "row", key(k, t) \o <<i_h, i_w, i_oc, im_h_i>>,
                            t.pbs, oc, 1, oc * c.im_oc_block, c.im_oc_block,
                            h + im_h_i, 1, w, c.im_w_block) :
                   im_h_i \in {x \in 0..(c.im_h_block - 1) : h + x < f.oh_}}
           ELSE {})
          \cup
          (IF (IF tile_any_ic THEN sp.ic.used_threads = 1 ELSE ic_one) /\ in
           THEN {anchor_rec(f, c, "tile", key(k, t) \o <<i_h, i_w, i_oc>>,
                            t.pbs, oc, 1, oc * c.im_oc_block, c.im_oc_block,
                            h, c.im_h_block, w, c.im_w_block)}
           ELSE {})
          \cup
          (IF ic_one /\ oc_full /\ hok(h) /\ w < f.ow_ /\ i_oc = 0
           THEN {anchor_rec(f, c, "lioc", key(k, t) \o <<i_h, i_w>>,
                            t.pbs, anch_c(t, k), 1,
                            anch_c(t, k) * c.im_oc_block, c.K_block,
                            h, c.im_h_block, w, c.im_w_block)}
           ELSE {})
          \cup
          (IF ic_one /\ oc_full /\ w_full /\ hok(h) /\ i_oc = 0 /\ i_w = 0
           THEN {anchor_rec(f, c, "liw", key(k, t) \o <<i_h>>,
                            t.pbs, anch_c(t, k), 1,
                            anch_c(t, k) * c.im_oc_block, c.K_block,
                            h, c.im_h_block, w_of(c, sp, t, 0), c.w_block)}
           ELSE {})
          \cup
          (IF ic_one /\ oc_full /\ w_full /\ h_full
              /\ i_oc = 0 /\ i_w = 0 /\ i_h = 0
           THEN {anchor_rec(f, c, "lih", key(k, t),
                            t.pbs, anch_c(t, k), 1,
                            anch_c(t, k) * c.im_oc_block, c.K_block,
                            h_of(c, sp, t, 0), c.h_block,
                            w_of(c, sp, t, 0), c.w_block)}
           ELSE {}) :
       k \in K, t \in T, i_h \in IH, i_w \in IW, i_oc \in IOC}

\* compute_1x1_pack_input_nested, lines 612-764
anchors_1x1_pack(f, c) ==
  block_anchors(f, c, splits_of(f, c, f.actual_os_), 1, FALSE, TRUE, FALSE)
    \cup thread_anchors(f, c, 1)

\* compute_1x1_no_pack_input_nested, lines 996-1165
anchors_1x1_no_pack(f, c) ==
  block_anchors(f, c, splits_of(f, c, f.actual_os_), 1, TRUE, FALSE, TRUE)
    \cup thread_anchors(f, c, 1)

\* compute_conv_no_padding_nested, lines 1717-1905
anchors_conv_no_padding(f, c, m) ==
  LET sp == splits_of(f, c, f.actual_os_)
      oc_split == oc_split_of(f, c, m, sp.oc.num_block_pt)
  IN block_anchors(f, c, sp, oc_split, TRUE, FALSE, FALSE)
       \cup thread_anchors(f, c, oc_split)

\* a faulty row range: one row per micro-block
os_tile_rows_single(f, idx, os_num_block) == [h0 |-> idx, hn |-> 1]

\* lines 1383-1385: the rows named by the anchor after micro-block idx,
\* {im_s_block_idx * (oh_ / os_num_block), oh_ / os_num_block}
os_tile_rows(f, idx, os_num_block) ==
  [h0 |-> idx * (f.oh_ \div os_num_block), hn |-> f.oh_ \div os_num_block]

\* compute_conv_no_padding_os_blocking_nested, lines 1374-1454
anchors_os_blocking(f, c, m) ==
  LET os == f.adj_os_
      sp == splits_of_os(f, c, os)
      oc_split == oc_split_of(f, c, m, sp.oc.num_block_pt)
      im_s_block == c.im_w_block
      os_num_block == os \div im_s_block
      ic_threads == 1
      whole(level, at, k, pbs) ==
        anchor_rec(f, c, level, at, pbs,
                   ((k * f.oc_) \div c.im_oc_block) \div oc_split,
                   (f.oc_ \div c.im_oc_block) \div oc_split,
                   (k * f.oc_) \div oc_split, f.oc_ \div oc_split,
                   0, f.oh_, 0, f.ow_)
      K == 0..(oc_split - 1)
      B == 0..(f.mb_ - 1)
      PS == 0..(c.w_threads - 1)
      POC == 0..(c.oc_threads - 1)
  IN (IF sp.ic.used_threads = 1 /\ sp.ic.num_block_pt = 1
         /\ f.oh_ % os_num_block = 0
      THEN UNION {
             LET oc == (t.poc * sp.oc.num_block_pt * c.K_block) \div c.im_oc_block
                         + (t.o_oc * c.K_block) \div c.im_oc_block
                         + ((k * c.K_block) \div c.im_oc_block) \div oc_split
                         + i_oc
                 idx == blk_index(t.ps, sp.os.num_block_pt, c.w_block,
                                  im_s_block, t.o_s, i_s)
             IN IF oc * c.im_oc_block < f.oc_
                   /\ t.o_ic = num_block_select(t.pic, sp.ic) - 1
                THEN {anchor_rec(f, c, "tile",
                                 <<k, t.pbs, t.ps, t.poc, t.pic, t.o_s, t.o_oc,
                                   t.o_ic, i_oc, i_s>>,
                                 t.pbs, oc, 1, oc * c.im_oc_block, c.im_oc_block,
                                 os_tile_rows(f, idx, os_num_block).h0,
                                 os_tile_rows(f, idx, os_num_block).hn,
                                 0, f.ow_)}
                ELSE {} :
             k \in K, t \in nest_blocks_os(f, c, sp),
             i_oc \in 0..((c.K_block \div c.im_oc_block) \div oc_split - 1),
             i_s \in 0..(c.w_block \div im_s_block - 1)}
      ELSE {})
     \cup
     (IF c.oc_threads = 1 /\ ic_threads = 1 /\ c.w_threads = 1
      THEN {whole("lpic", <<k, pbs, ps, poc, 0>>, k, pbs) :
              k \in K, pbs \in B, ps \in PS, poc \in POC}
      ELSE {})
     \cup
     (IF c.oc_threads = 1 /\ c.w_threads = 1
      THEN {whole("lpoc", <<k, pbs, ps, poc>>, k, pbs) :
              k \in K, pbs \in B, ps \in PS, poc \in POC}
      ELSE {})
     \cup
     (IF c.w_threads = 1
      THEN {whole("lps", <<k, pbs, ps>>, k, pbs) : k \in K, pbs \in B, ps \in PS}
      ELSE {})
     \cup
     (IF f.mb_ > 1
      THEN {whole("lpbs", <<k, pbs>>, k, pbs) : k \in K, pbs \in B}
      ELSE {})

(***************************************************************************)
(* generate: validation of the configuration, strategy selection and the   *)
(* selected emitter.  The result records whether generate returned or      *)
(* threw (error names the failed COMPILE_ASSERT), the IR pieces that had   *)
(* been built by then, and for a returned plan the emitted calls, anchors  *)
(* and the loops handed back for scheduling.                               *)
(***************************************************************************)
gen_result(ok, error, strategy, built, calls, anchors, loops) ==
  [ok |-> ok, error |-> error, strategy |-> strategy, built |-> built,
   calls |-> calls, anchors |-> anchors, loops |-> loops]

gen_fail(error, strategy, built) ==
  gen_result(FALSE, error, strategy, built, {}, {}, <<>>)

\* an integer division or modulo by a block size that is zero was evaluated
gen_div0(strategy, built) == gen_fail("division by zero", strategy, built)

\* a faulty stride test: no problem counts as strided
strided_never(f) == FALSE

\* sd_ > 1 || sh_ > 1 || sw_ > 1
strided(f) == f.sd_ > 1 \/ f.sh_ > 1 \/ f.sw_ > 1

\* The emitters take a flag body: with body = FALSE the calls and anchors of
\* the loop nest are left out of the result, and what remains is whether the
\* emitter returns or throws, and what it had built by then.
\* compute_1x1_pack_input_nested: the strided re-packing copy loops are
\* built first (for a blocked input after ic_ / im_ic_block is taken), the
\* configuration is asserted afterwards
emit_1x1_pack(f, c, fusion, built0, body) ==
  LET built == IF c.pack_input = 1 /\ strided(f)
               THEN built0 \cup {"pack_copy_loops"} ELSE built0
      S == "1x1_pack"
  IN IF f.is_3d_ THEN gen_fail("is_3d", S, built0)
     ELSE IF c.pack_input = 1 /\ strided(f) /\ f.blocking_input_
             /\ c.im_ic_block = 0
     THEN gen_div0(S, built0)
     ELSE IF c.im_oc_block = 0 THEN gen_div0(S, built)
     ELSE IF c.K_block % c.im_oc_block # 0 THEN gen_fail("oc_block % im_oc_block", S, built)
     ELSE IF c.im_ic_block = 0 THEN gen_div0(S, built)
     ELSE IF c.C_block % c.im_ic_block # 0 THEN gen_fail("ic_block % im_ic_block", S, built)
     ELSE IF c.im_h_block = 0 THEN gen_div0(S, built)
     ELSE IF c.h_block % c.im_h_block # 0 THEN gen_fail("h_block % im_h_block", S, built)
     ELSE IF c.w_block % c.im_w_block # 0 THEN gen_fail("w_block % im_w_block", S, built)
     ELSE IF ~(c.im_w_block = f.ow_ \/ c.im_h_block = 1)
          THEN gen_fail("im_w_block or im_h_block", S, built)
     ELSE IF c.h_block = 0 \/ c.w_block = 0 THEN gen_div0(S, built)
     ELSE gen_result(TRUE, "", S, built \cup {"loop_nest"},
                     IF body THEN calls_1x1_pack(f, c) ELSE {},
                     IF body /\ fusion THEN anchors_1x1_pack(f, c) ELSE {},
                     <<"lpbs", "lph", "lpw", "lpoc", "lpic">>)

\* compute_1x1_no_pack_input_nested
emit_1x1_no_pack(f, c, fusion, built, body) ==
  LET S == "1x1_no_pack"
  IN IF c.im_oc_block = 0 THEN gen_div0(S, built)
     ELSE IF c.K_block % c.im_oc_block # 0 THEN gen_fail("oc_block % im_oc_block", S, built)
     ELSE IF c.im_ic_block = 0 THEN gen_div0(S, built)
     ELSE IF c.C_block % c.im_ic_block # 0 THEN gen_fail("ic_block % im_ic_block", S, built)
     ELSE IF c.im_h_block = 0 THEN gen_div0(S, built)
     ELSE IF c.h_block % c.im_h_block # 0 THEN gen_fail("h_block % im_h_block", S, built)
     ELSE IF c.w_block % c.im_w_block # 0 THEN gen_fail("w_block % im_w_block", S, built)
     ELSE IF c.h_block = 0 \/ c.w_block = 0 THEN gen_div0(S, built)
     ELSE gen_result(TRUE, "", S, built \cup {"loop_nest"},
                     IF body THEN calls_1x1_no_pack(f, c) ELSE {},
                     IF body /\ fusion THEN anchors_1x1_no_pack(f, c) ELSE {},
                     <<"lpbs", "lph", "lpw", "lpoc", "lpic">>)

\* compute_conv_no_padding_os_blocking_nested
emit_os_blocking(f, c, m, fusion, pack_rows, built, body) ==
  LET S == "os_blocking"
  IN IF ~pack_rows THEN gen_fail("pack_rows", S, built)
     ELSE IF c.im_oc_block = 0 THEN gen_div0(S, built)
     ELSE IF c.K_block % c.im_oc_block # 0 THEN gen_fail("oc_block % im_oc_block", S, built)
     ELSE IF c.im_ic_block = 0 THEN gen_div0(S, built)
     ELSE IF c.C_block % c.im_ic_block # 0 THEN gen_fail("ic_block % im_ic_block", S, built)
     ELSE IF c.w_block % c.im_w_block # 0 THEN gen_fail("s_block % im_s_block", S, built)
     ELSE IF c.w_block = 0 THEN gen_div0(S, built)
     ELSE gen_result(TRUE, "", S, built \cup {"loop_nest"},
                     IF body THEN calls_os_blocking(f, c, m) ELSE {},
                     IF body /\ fusion THEN anchors_os_blocking(f, c, m) ELSE {},
                     <<"lpbs", "lps", "lpoc", "lpic", "lok">>)

\* compute_conv_no_padding_nested
emit_conv_no_padding(f, c, m, fusion, built, body) ==
  LET S == "conv_no_padding"
  IN IF c.im_oc_block = 0 THEN gen_div0(S, built)
     ELSE IF c.K_block % c.im_oc_block # 0 THEN gen_fail("oc_block % im_oc_block", S, built)
     ELSE IF c.im_ic_block = 0 THEN gen_div0(S, built)
     ELSE IF c.C_block % c.im_ic_block # 0 THEN gen_fail("ic_block % im_ic_block", S, built)
     ELSE IF c.im_h_block = 0 THEN gen_div0(S, built)
     ELSE IF c.h_block % c.im_h_block # 0 THEN gen_fail("h_block % im_h_block", S, built)
     ELSE IF c.w_block % c.im_w_block # 0 THEN gen_fail("w_block % im_w_block", S, built)
     ELSE IF c.h_block = 0 \/ c.w_block = 0 THEN gen_div0(S, built)
     ELSE gen_result(TRUE, "", S, built \cup {"loop_nest"},
                     IF body THEN calls_conv_no_padding(f, c, m) ELSE {},
                     IF body /\ fusion THEN anchors_conv_no_padding(f, c, m) ELSE {},
                     <<"lpbs", "lph", "lpw", "lpoc", "lpic", "lok">>)

\* generate, lines 1935-2069
generate_with(f, c, m, fusion, body) ==
  LET use_os_blocking == f.try_os_blocking_ /\ m.use_amx
      pack_rows == use_os_blocking
                     /\ (c.im_w_block > 0 /\ f.ow_ % c.im_w_block # 0)
      os == IF pack_rows THEN f.adj_os_ ELSE f.actual_os_
      built == IF pack_rows THEN {"os_acc_size"} ELSE {}
      pads_zero == f.pd_ = 0 /\ f.ph_ = 0 /\ f.pw_ = 0
  IN IF ~(c.K_block # 0 /\ f.oc_ % c.K_block = 0)
     THEN gen_fail("oc % K_block", "none", {})
     ELSE IF ~(c.C_block # 0 /\ f.ic_ % c.C_block = 0)
     THEN gen_fail("ic % C_block", "none", {})
     ELSE IF use_os_blocking /\ ~(c.im_w_block > 0 /\ os % c.im_w_block = 0)
     THEN gen_fail("os % im_w_block", "none", built)
     ELSE IF (~use_os_blocking)
             /\ ~(c.im_h_block > 0 /\ f.oh_ % c.im_h_block = 0)
     THEN gen_fail("oh % im_h_block", "none", built)
     ELSE IF (~use_os_blocking)
             /\ ~(c.im_w_block > 0 /\ f.ow_ % c.im_w_block = 0)
     THEN gen_fail("ow % im_w_block", "none", built)
     ELSE IF f.is_1x1_conv_
     THEN (IF ~pads_zero THEN gen_fail("1x1 padding", "none", built)
           ELSE IF c.pack_input = 0 /\ strided(f)
           THEN emit_1x1_no_pack(f, c, fusion, built, body)
           ELSE emit_1x1_pack(f, c, fusion, built, body))
     ELSE IF pads_zero
     THEN (IF f.is_3d_ THEN gen_fail("is_3d", "none", built)
           ELSE IF use_os_blocking /\ pack_rows
           THEN emit_os_blocking(f, c, m, fusion, pack_rows, built, body)
           ELSE emit_conv_no_padding(f, c, m, fusion, built, body))
     ELSE gen_result(TRUE, "", "none", built, {}, {}, <<>>)

generate(f, c, m, fusion) == generate_with(f, c, m, fusion, TRUE)

\* The planned Configuration is handed to generate; of the result only the
\* verdict is kept, the loop nest of these shapes is not enumerated.
GeneratePlanned ==
  /\ pc = "planned"
  /\ plan' = generate_with(self, cfg, args, FALSE, FALSE)
  /\ pc' = IF plan'.ok THEN "plan_accepted" ELSE "plan_rejected"
  /\ UNCHANGED <<args, self, cfg, run, part, cfg_again, sched>>

\* generate either returns the emitted plan or throws.  An integer division
\* by zero is undefined: the call traps, or it goes on with some value.
Generate ==
  /\ pc = "configured"
  /\ plan' = generate(self, cfg, args, args.fusion)
  /\ pc' \in (IF plan'.ok THEN {"generated"}
              ELSE IF plan'.error = "division by zero"
              THEN {"gen_crashed", "gen_undefined"}
              ELSE {"gen_error"})
  /\ UNCHANGED <<args, self, cfg, run, part, cfg_again, sched>>

(***************************************************************************)
(* schedule_loops: the loops generate handed back are fused into one       *)
(* parallel loop, outermost first.                                         *)
(***************************************************************************)
sched_result(ok, error, fused) == [ok |-> ok, error |-> error, fused |-> fused]

schedule_loops(f, c, fors) ==
  LET pack_rows == c.im_w_block > 0 /\ f.ow_ % c.im_w_block # 0
  IN IF ~f.use_nested_2d_ THEN sched_result(TRUE, "", <<>>)
     ELSE IF f.try_os_blocking_ /\ pack_rows
     THEN (IF Len(fors) # 5 THEN sched_result(FALSE, "fors.size() == 5", <<>>)
           ELSE sched_result(TRUE, "",
                             <<fors[5], fors[1], fors[2], fors[3], fors[4]>>))
     ELSE (IF Len(fors) # 6 THEN sched_result(FALSE, "fors.size() == 6", <<>>)
           ELSE sched_result(TRUE, "",
                             <<fors[6], fors[1], fors[2], fors[3], fors[4],
                               fors[5]>>))

\* The body generator schedules the loops of a generated plan.
Schedule ==
  /\ pc = "generated"
  /\ sched' = schedule_loops(self, cfg, plan.loops)
  /\ pc' = IF sched'.ok THEN "scheduled" ELSE "sched_error"
  /\ UNCHANGED <<args, self, cfg, plan, run, part, cfg_again>>

(***************************************************************************)
(* Execution of an emitted plan.  The output memory maps every element     *)
(* (n, channel, flattened position) to the number of times each input-     *)
(* channel micro-block has been added into it; Uninit marks memory that    *)
(* was never initialized.  The calls run in the order of the loop nest     *)
(* (the parallel loops taken in index order).                              *)
(***************************************************************************)
loop_key(cl) ==
  <<cl.outer_k, cl.pbs, cl.ph, cl.pw, cl.poc, cl.pic, cl.o_h, cl.o_w, cl.o_oc,
    cl.o_ic, cl.i_h, cl.i_w, cl.i_oc, cl.im_h_i>>

RECURSIVE lex_less(_, _, _)
lex_less(a, b, i) ==
  IF i > Len(a) THEN FALSE
  ELSE IF a[i] # b[i] THEN a[i] < b[i] ELSE lex_less(a, b, i + 1)

\* the call stores to element e = <<n, channel, position>>
covers(c, cl, e) ==
  /\ cl.n = e[1]
  /\ e[2] \div c.im_oc_block = cl.oc
  /\ cl.q0 <= e[3] /\ e[3] < cl.q0 + cl.M

output_elems(f) ==
  {<<n, ch, q>> : n \in 0..(f.mb_ - 1), ch \in 0..(f.oc_ - 1),
                  q \in 0..(f.oh_ * f.ow_ - 1)}

ic_blocks(f, c) == 0..(divide_and_ceil(f.ic_, c.im_ic_block) - 1)

Uninit(f, c) == [b \in ic_blocks(f, c) |-> 0 - 1]

\* brgemm_init_list_update overwrites, brgemm_list_update adds
brgemm(f, c, val, cl) ==
  IF cl.init THEN [b \in ic_blocks(f, c) |-> IF b \in cl.ics THEN 1 ELSE 0]
  ELSE IF val = Uninit(f, c) THEN val
  ELSE [b \in ic_blocks(f, c) |-> val[b] + (IF b \in cl.ics THEN 1 ELSE 0)]

RECURSIVE run_calls(_, _, _, _)
run_calls(f, c, val, calls) ==
  IF calls = {} THEN val
  ELSE LET first == CHOOSE x \in calls :
                      \A y \in calls \ {x} : lex_less(loop_key(x), loop_key(y), 1)
       IN run_calls(f, c, brgemm(f, c, val, first), calls \ {first})

run_plan(f, c, calls) ==
  [e \in output_elems(f) |->
     run_calls(f, c, Uninit(f, c), {cl \in calls : covers(c, cl, e)})]

\* what an out-of-range micro-block index may do when the plan runs: fault,
\* store nothing, or store a row at some position of the output
\* (encoded -2, -1 and the position)
oob_outcomes(f) == (0 - 2)..(f.oh_ * f.ow_ - 1)

Execute ==
  /\ pc = "generated"
  /\ \A cl \in plan.calls : ~cl.oob
  /\ run' = [out |-> run_plan(self, cfg, plan.calls)]
  /\ pc' = "executed"
  /\ UNCHANGED <<args, self, cfg, plan, part, cfg_again, sched>>

ExecuteOutOfRange ==
  /\ pc = "generated"
  /\ \E cl \in plan.calls : cl.oob
  /\ \E g \in oob_outcomes(self) :
       IF g = 0 - 2
       THEN /\ pc' = "crashed"
            /\ run' = run
       ELSE /\ pc' = "executed"
            /\ run' = [out |-> run_plan(self, cfg,
                         {IF cl.oob /\ g >= 0
                          THEN [cl EXCEPT !.q0 = g, !.M = 1] ELSE cl :
                            cl \in plan.calls})]
  /\ UNCHANGED <<args, self, cfg, plan, part, cfg_again, sched>>

(***************************************************************************)
(* Specification SpecPlan: the constructor followed by the planner, over   *)
(* 2D zero-padding problems of realistic extents.                          *)
(***************************************************************************)
MaxPlanThreads == 8

PlanBatch == {1, 2, 4, 16}

PlanInChannels == {64, 128, 512}

PlanOutChannels == {2, 64, 96, 128, 256, 384, 512}

PlanHeights == {14, 28, 29}

PlanWidths == {14, 28, 29, 56}

PlanKernels == {1, 3}

PlanStrides == {1, 2}

\* (input is 8-bit, machine has AMX)
PlanDtypeAmx == {<<FALSE, FALSE>>, <<TRUE, FALSE>>, <<TRUE, TRUE>>}

InitPlan ==
  /\ pc = "start"
  /\ self = NoSelf /\ cfg = NoCfg /\ plan = NoPlan /\ run = NoRun
  /\ part = NoPart /\ cfg_again = NoCfg /\ sched = NoSched
  /\ \E mb \in PlanBatch, ic \in PlanInChannels, oc \in PlanOutChannels,
        oh \in PlanHeights, ow \in PlanWidths, k \in PlanKernels,
        s \in PlanStrides, da \in PlanDtypeAmx, T \in 1..MaxPlanThreads :
       args = conv_args(4, mb, ic, oc, <<1, oh, ow>>, <<1, k, k>>,
                        <<1, s, s>>, <<0, 0, 0>>, da[1], FALSE, FALSE,
                        [num_threads |-> T, use_amx |-> da[2],
                         L2_cache_size |-> 1, fusion |-> FALSE])

NextPlan == Construct \/ Plan \/ PlanAgain \/ GeneratePlanned

SpecPlan == InitPlan /\ [][NextPlan]_vars

\* C4: every outer block of the planned Configuration is an exact multiple of
\*     its micro block.
C4_OuterMultipleOfMicro ==
  pc = "planned" =>
    /\ cfg.K_block % cfg.im_oc_block = 0
    /\ cfg.C_block % cfg.im_ic_block = 0
    /\ cfg.h_block % cfg.im_h_block = 0
    /\ cfg.w_block % cfg.im_w_block = 0

\* row packing is what the planner leaves in use when the micro block of the
\* flattened spatial axis does not divide the output width
plan_pack_rows == self.try_os_blocking_ /\ self.ow_ % cfg.im_w_block # 0

\* C5: every outer block of the planned Configuration evenly divides its
\*     axis extent (the width only on the paths that are not row-packed).
C5_OuterDividesExtent ==
  pc = "planned" =>
    /\ self.oc_ % cfg.K_block = 0
    /\ self.ic_ % cfg.C_block = 0
    /\ self.oh_ % cfg.h_block = 0
    /\ (~plan_pack_rows => self.ow_ % cfg.w_block = 0)

planned == pc \in {"planned", "planned_again"}

\* C12: the planned micro blocks of the channel axes divide their channel
\* counts evenly: oc % im_oc_block = 0 and ic % im_ic_block = 0.
C12_MicroBlocksDivideChannels ==
  planned =>
    /\ self.oc_ % cfg.im_oc_block = 0
    /\ self.ic_ % cfg.im_ic_block = 0

batch_is_large(mb, oc, T) == mb > T \/ (mb = T /\ oc <= 128)

\* C15: when the batch is not large relative to the thread count T, step 1
\* of the planner chooses as batch-thread count the largest divisor of T
\* that divides mb evenly (1 if none does), and T / bs_threads as
\* output-channel-thread count.
C15_BatchThreadsLargestDividingDivisor ==
  planned =>
    LET T == args.num_threads
        step1 == plan_threads(self, T)
    IN ~batch_is_large(self.mb_, self.oc_, T) =>
         /\ step1.bs_threads = SetMax({d \in Divisors(T) : self.mb_ % d = 0})
         /\ step1.oc_threads = T \div step1.bs_threads

\* C19: in the planned Configuration, when oc_threads > 1 and some divisor d
\* of oc makes oc / d a multiple of oc_threads, the number of output-channel
\* micro blocks oc / im_oc_block is a multiple of oc_threads.
C19_OcBlocksSplitEvenly ==
  planned =>
    ((cfg.oc_threads > 1
        /\ \E d \in Divisors(self.oc_) : (self.oc_ \div d) % cfg.oc_threads = 0)
      => (self.oc_ \div cfg.im_oc_block) % cfg.oc_threads = 0)

\* C27: the thread counts of the planned Configuration multiply to the
\* thread count T of the machine, in every branch of the planner.
C27_ThreadProductIsT ==
  planned =>
    cfg.bs_threads * cfg.oc_threads * cfg.h_threads * cfg.w_threads
      = args.num_threads

\* the 1x1 branch has taken two height threads out of the batch threads
C27_Witness ==
  /\ planned /\ self.is_1x1_conv_ /\ args.num_threads = 8
  /\ cfg.h_threads = 2 /\ cfg.bs_threads = 4 /\ cfg.oc_threads = 1

\* C28: the planner returns, and every block size and every thread count of
\* the Configuration it returns is at least 1; no division by zero occurs in
\* the planner.
C28_PlannedSizesPositive ==
  /\ pc \notin {"plan_crashed", "plan_undefined"}
  /\ planned =>
       /\ cfg.K_block >= 1 /\ cfg.C_block >= 1
       /\ cfg.h_block >= 1 /\ cfg.w_block >= 1
       /\ cfg.im_oc_block >= 1 /\ cfg.im_ic_block >= 1
       /\ cfg.im_h_block >= 1 /\ cfg.im_w_block >= 1
       /\ cfg.bs_threads >= 1 /\ cfg.oc_threads >= 1
       /\ cfg.h_threads >= 1 /\ cfg.w_threads >= 1

\* C29: generate raises no configuration error on the Configuration the
\* planner returned for the same descriptor and machine.
C29_PlannedConfigAccepted ==
  pc # "plan_rejected"

(***************************************************************************)
(* Specification SpecEmit: the constructor, a configuration supplied by    *)
(* the caller, generate, and the execution of the emitted plan, over small *)
(* problems.  A problem differs from the base problem in at most one       *)
(* extent, a configuration from the base configuration of its problem in   *)
(* at most one axis.                                                       *)
(***************************************************************************)
MaxMb == 2

MaxIc == 2

MaxExt == 3

MaxAxisThreads == 2

MaxPad == 1

\* <<mb, ic, oc, oh, ow>>
EmitShapes ==
  {<<mb, 2, 2, 2, 2>> : mb \in 1..MaxMb}
    \cup {<<1, ic, 2, 2, 2>> : ic \in 1..MaxIc}
    \cup {<<1, 2, x, 2, 2>> : x \in 1..MaxExt}
    \cup {<<1, 2, 2, x, 2>> : x \in 1..MaxExt}
    \cup {<<1, 2, 2, 2, x>> : x \in 1..MaxExt}

\* the level-2 cache holds all the weights, or, for the 2x2 kernels, a half
\* or three quarters of the weights of the base problem
EmitMachines(k, int8, amx) ==
  IF k # 2
  THEN {[num_threads |-> 1, use_amx |-> amx, L2_cache_size |-> 4096]}
  ELSE {[num_threads |-> T, use_amx |-> amx, L2_cache_size |-> L2] :
          T \in 1..MaxAxisThreads,
          L2 \in {IF int8 THEN 8 ELSE 32, IF int8 THEN 12 ELSE 48, 4096}}

\* <<kernel, stride, input is 8-bit, machine has AMX>>
EmitKinds ==
  {<<1, 1, FALSE, FALSE>>, <<1, 2, FALSE, FALSE>>, <<2, 1, FALSE, FALSE>>,
   <<2, 1, TRUE, FALSE>>, <<2, 1, TRUE, TRUE>>, <<2, 2, TRUE, TRUE>>,
   <<3, 2, TRUE, TRUE>>}

\* <<blocking_output, fusion manager attached>>
EmitOutputs == {<<FALSE, TRUE>>, <<TRUE, TRUE>>, <<FALSE, FALSE>>}

\* the zero-padding 2D problems
EmitProblems ==
  UNION {
    {conv_args(4, sh[1], sh[2], sh[3], <<1, sh[4], sh[5]>>,
               <<1, kd[1], kd[1]>>, <<1, kd[2], kd[2]>>, <<0, 0, 0>>,
               kd[3], out[1], out[1],
               [num_threads |-> mach.num_threads, use_amx |-> mach.use_amx,
                L2_cache_size |-> mach.L2_cache_size, fusion |-> out[2]]) :
       sh \in EmitShapes, out \in EmitOutputs,
       mach \in EmitMachines(kd[1], kd[3], kd[4])} :
    kd \in EmitKinds}

\* 1D, 2D and 3D problems with paddings 0..MaxPad whose input is not empty
PaddedProblems ==
  {a \in {conv_args(ndims, 1, 2, 2, <<2, 2, 2>>, <<ks[1], ks[1], ks[1]>>,
                    <<ks[2], ks[2], ks[2]>>, pads, FALSE, FALSE, FALSE,
                    [num_threads |-> 1, use_amx |-> FALSE,
                     L2_cache_size |-> 4096, fusion |-> TRUE]) :
            ndims \in {3, 4, 5}, ks \in {<<1, 2>>, <<2, 1>>, <<2, 2>>},
            pads \in (0..MaxPad) \X (0..MaxPad) \X (0..MaxPad)} :
     \A i \in DOMAIN a.in_dims : a.in_dims[i] >= 1}

InitEmit ==
  /\ pc = "start"
  /\ self = NoSelf /\ cfg = NoCfg /\ plan = NoPlan /\ run = NoRun
  /\ part = NoPart /\ cfg_again = NoCfg /\ sched = NoSched
  /\ args \in EmitProblems \cup PaddedProblems

\* one axis of a configuration: outer block, micro block, thread count
EmitAxis(ext) ==
  {[blk |-> b, im |-> i, thr |-> t] :
     b \in 1..ext, i \in 1..ext, t \in 1..MaxAxisThreads}

BaseAxis(ext) == [blk |-> ext, im |-> 1, thr |-> 1]

\* the flattened spatial axis of a row-packed plan: micro blocks dividing the
\* adjusted extent, one to three of them per outer block
OsAxis(f) ==
  {[blk |-> r * i, im |-> i, thr |-> t] :
     i \in Divisors(f.adj_os_), r \in 1..3, t \in 1..MaxAxisThreads}

mk_config(a_oc, a_h, a_w, a_ic, pack_input) ==
  [bs_threads |-> 1, oc_threads |-> a_oc.thr, h_threads |-> a_h.thr,
   w_threads |-> a_w.thr,
   K_block |-> a_oc.blk, C_block |-> a_ic.blk, h_block |-> a_h.blk,
   w_block |-> a_w.blk,
   im_oc_block |-> a_oc.im, im_ic_block |-> a_ic.im, im_h_block |-> a_h.im,
   im_w_block |-> a_w.im, pack_input |-> pack_input]

\* the block sizes of a Configuration
BlockSizes ==
  {"K_block", "C_block", "h_block", "w_block",
   "im_oc_block", "im_ic_block", "im_h_block", "im_w_block"}

EmitConfigs(f, m) ==
  LET os == f.try_os_blocking_ /\ m.use_amx
      W0 == {BaseAxis(f.ow_)}
              \cup (IF os THEN {[blk |-> f.adj_os_, im |-> f.adj_os_, thr |-> 1]}
                    ELSE {})
      W == EmitAxis(f.ow_) \cup (IF os THEN OsAxis(f) ELSE {})
      IC == {a \in EmitAxis(f.ic_) : a.thr = 1}
      P == IF f.is_1x1_conv_ THEN {0, 1} ELSE {1}
      B_oc == BaseAxis(f.oc_)
      B_h == BaseAxis(f.oh_)
      B_ic == BaseAxis(f.ic_)
  IN {mk_config(a, B_h, w, B_ic, p) : a \in EmitAxis(f.oc_), w \in W0, p \in P}
     \cup {mk_config(B_oc, a, w, B_ic, p) : a \in EmitAxis(f.oh_), w \in W0, p \in P}
     \cup {mk_config(B_oc, B_h, a, B_ic, p) : a \in W, p \in P}
     \cup {mk_config(B_oc, B_h, w, a, p) : a \in IC, w \in W0, p \in P}
     \cup {[mk_config(B_oc, B_h, w, B_ic, p) EXCEPT ![b] = 0] :
             b \in BlockSizes, w \in W0, p \in P}

\* The caller hands a configuration to generate.
SupplyConfig ==
  /\ pc = "constructed"
  /\ \E c \in EmitConfigs(self, args) : cfg' = c
  /\ pc' = "configured"
  /\ UNCHANGED <<args, self, plan, run, part, cfg_again, sched>>

NextEmit ==
  \/ Construct
  \/ SupplyConfig
  \/ Generate
  \/ Schedule
  \/ Execute
  \/ ExecuteOutOfRange

SpecEmit == InitEmit /\ [][NextEmit]_vars

emitted == pc \in {"generated", "executed", "crashed"}

\* the iteration of the parallel axes that issues a call
parallel_iteration(cl) == <<cl.outer_k, cl.pbs, cl.ph, cl.pw, cl.poc>>

tiles_overlap(a, b) ==
  /\ a.n = b.n /\ a.oc = b.oc
  /\ a.q0 < b.q0 + b.M /\ b.q0 < a.q0 + a.M

\* C1: in an emitted plan no two calls issued by distinct iterations of the
\* parallel axes (outer_k, pbs, ph, pw, poc) have destination tiles with a
\* common output element.
C1_ParallelTilesDisjoint ==
  emitted =>
    \A a \in plan.calls : \A b \in plan.calls :
      parallel_iteration(a) # parallel_iteration(b) => ~tiles_overlap(a, b)

\* C2: in an emitted plan every output element (n, oc, h, w) lies in the
\* destination tile of at least one call, tails of the last active thread
\* included.
C2_EveryElementCovered ==
  (emitted /\ plan.strategy # "none") =>
    \A e \in output_elems(self) : \E cl \in plan.calls : covers(cfg, cl, e)

tail_share(bs) ==
  bs.used_threads > 1 /\ bs.tail_num_block_pt >= 1
    /\ bs.tail_num_block_pt < bs.num_block_pt

\* a plan of each kind whose last active thread has a shorter tail share
C2_Witness ==
  /\ emitted /\ plan.strategy = "conv_no_padding"
  /\ tail_share(splits_of(self, cfg, self.actual_os_).oh)
  /\ \A e \in output_elems(self) : \E cl \in plan.calls : covers(cfg, cl, e)

\* the anchor names element (n, ch, h, w)
names(a, n, ch, h, w) ==
  /\ a.n = n
  /\ a.c0 <= ch /\ ch < a.c0 + a.cn
  /\ a.h0 <= h /\ h < a.h0 + a.hn
  /\ a.w0 <= w /\ w < a.w0 + a.wn

\* C3: with a fusion consumer attached, every output element is named by
\* exactly one of the regions published by the plan.
C3_AnchorsPartitionOutput ==
  (emitted /\ args.fusion /\ plan.strategy # "none") =>
    \A n \in 0..(self.mb_ - 1), ch \in 0..(self.oc_ - 1),
       h \in 0..(self.oh_ - 1), w \in 0..(self.ow_ - 1) :
      Cardinality({a \in plan.anchors : names(a, n, ch, h, w)}) = 1

\* C8: the call at o_ic = 0 initializes its tile, every call at o_ic > 0
\* accumulates, and after the run every output element holds each
\* input-channel block exactly once.
C8_AccumulateOverIcBlocks ==
  (pc = "executed" /\ \A cl \in plan.calls : ~cl.oob) =>
    /\ \A cl \in plan.calls : cl.init = (cl.o_ic = 0)
    /\ \A e \in output_elems(self) :
         run.out[e] = [b \in ic_blocks(self, cfg) |-> 1]

has_padding(a) == \E i \in DOMAIN a.pads_begin : a.pads_begin[i] # 0

\* C9: a problem with a nonzero padding component or of rank 5 never gets
\* past the constructor: no descriptor, no configuration, no plan.
C9_PaddingOr3DRejected ==
  (has_padding(args) \/ Len(args.in_dims) = 5) =>
    /\ pc \in {"start", "ctor_error"}
    /\ self = NoSelf /\ cfg = NoCfg /\ plan = NoPlan /\ run = NoRun

C9_Witness ==
  pc = "ctor_error" /\ has_padding(args) /\ Len(args.in_dims) = 4

\* C10: when generate fails, no loop node has been built: neither the loop
\* nest nor the copy loops of the 1x1 re-packing pass.
C10_ErrorBeforeAnyLoopNode ==
  pc = "gen_error" => plan.built \cap {"pack_copy_loops", "loop_nest"} = {}

\* the strategy the selection rule names for a descriptor and a configuration
selected_strategy ==
  IF self.is_1x1_conv_
  THEN (IF cfg.pack_input = 0 /\ (self.sh_ > 1 \/ self.sw_ > 1)
        THEN "1x1_no_pack" ELSE "1x1_pack")
  ELSE (IF self.try_os_blocking_ /\ args.use_amx
           /\ self.ow_ % cfg.im_w_block # 0
        THEN "os_blocking" ELSE "conv_no_padding")

\* C11: when generate returns, it has run exactly the emitter the selection
\* rule names: for a 1x1 kernel the unpacked emitter iff pack_input = 0 and
\* some stride > 1, else the packed one; otherwise the row-packed emitter iff
\* row packing is in use and im_w_block does not divide ow, else the generic
\* one; it never returns without having run an emitter.
C11_ExactlyOneStrategy ==
  emitted =>
    /\ plan.ok
    /\ plan.strategy = selected_strategy
    /\ "loop_nest" \in plan.built

C11_Witness ==
  emitted /\ plan.strategy = "1x1_no_pack" /\ plan.calls # {}

\* the partition of the thread axes the selected emitter computes
plan_splits ==
  IF plan.strategy = "os_blocking" THEN splits_of_os(self, cfg, self.adj_os_)
  ELSE splits_of(self, cfg, self.actual_os_)

\* thread indices (height, width or flattened spatial, output channel, input
\* channel) all below the used-thread counts of their axes
active_thread(ph, pw, poc, pic) ==
  LET sp == plan_splits
  IN /\ (IF plan.strategy = "os_blocking" THEN pw < sp.os.used_threads
         ELSE ph < sp.oh.used_threads /\ pw < sp.ow.used_threads)
     /\ poc < sp.oc.used_threads /\ pic < sp.ic.used_threads

\* the thread indices under which an anchor inside the thread guard is issued
anchor_active(a) ==
  IF plan.strategy = "os_blocking"
  THEN active_thread(0, a.at[3], a.at[4], a.at[5])
  ELSE active_thread(a.at[3], a.at[4], a.at[5], a.at[6])

\* some thread axis has more threads than it uses
idle_threads ==
  LET sp == plan_splits
  IN \/ cfg.oc_threads > sp.oc.used_threads
     \/ (IF plan.strategy = "os_blocking" THEN cfg.w_threads > sp.os.used_threads
         ELSE cfg.h_threads > sp.oh.used_threads
                \/ cfg.w_threads > sp.ow.used_threads)

\* C14: in every strategy an iteration whose thread index on the height,
\* width (or flattened spatial), output-channel or input-channel axis is not
\* below the used-thread count of that axis issues no micro-kernel call and
\* publishes no tile-level anchor.
C14_IdleThreadsDoNothing ==
  (emitted /\ plan.strategy # "none") =>
    /\ \A cl \in plan.calls : active_thread(cl.ph, cl.pw, cl.poc, cl.pic)
    /\ \A a \in plan.anchors :
         a.level \in {"row", "tile"} => anchor_active(a)

\* the spatial extents of the kernel in the weight dims <<oc, ic, k...>>
kernel_is_1x1(a) == \A i \in 3..Len(a.w_dims) : a.w_dims[i] = 1

\* C17: a constructed descriptor has is_1x1 true iff every kernel spatial
\* extent is 1, and try_os_blocking true iff the kernel is not 1x1, all
\* padding is zero, the problem is not 3D and the input type is 8-bit integer.
C17_DescriptorFlags ==
  self # NoSelf =>
    /\ self.is_1x1_conv_ = kernel_is_1x1(args)
    /\ self.try_os_blocking_ =
         (~kernel_is_1x1(args) /\ ~has_padding(args)
            /\ Len(args.in_dims) # 5 /\ args.input_int8)

C17_Witness ==
  pc = "constructed" /\ self.try_os_blocking_ /\ args.input_int8
    /\ ~kernel_is_1x1(args)

\* the input position of row r of a call of the emitted 1x1 plan
a_row(cl, r) ==
  IF plan.strategy = "1x1_pack" THEN a_row_1x1_pack(self, cfg, cl, r)
  ELSE a_row_1x1_no_pack(self, cfg, cl, r)

\* C18: in either 1x1 variant the input row supplied for output position
\* (n, h, w) is input[n, h * sh, w * sw]; the packed variant builds its copy
\* pass exactly when the pack flag is set and some stride > 1.
C18_StridedInputRows ==
  (emitted /\ plan.strategy \in {"1x1_pack", "1x1_no_pack"}) =>
    /\ \A cl \in plan.calls : \A r \in 0..(cl.M - 1) :
         a_row(cl, r) = <<((cl.q0 + r) \div self.ow_) * self.sh_,
                          ((cl.q0 + r) % self.ow_) * self.sw_>>
    /\ ("pack_copy_loops" \in plan.built)
         = (plan.strategy = "1x1_pack" /\ cfg.pack_input = 1
              /\ (self.sh_ > 1 \/ self.sw_ > 1))

C18_Witness ==
  /\ emitted /\ plan.strategy = "1x1_pack" /\ self.sw_ > 1
  /\ "pack_copy_loops" \in plan.built
  /\ \E cl \in plan.calls : cl.M > 1 /\ cl.q0 > 0
        /\ a_row(cl, 1) = <<((cl.q0 + 1) \div self.ow_) * self.sh_,
                            ((cl.q0 + 1) % self.ow_) * self.sw_>>

\* the outer split of the output-channel axis the emitter computed
plan_oc_split == oc_split_of(self, cfg, args, plan_splits.oc.num_block_pt)

plan_weight_size ==
  self.oc_ * self.ic_ * self.kh_ * self.kw_ * weight_sizeof(args.input_int8)

\* the four conditions under which the output-channel axis may be split
may_split_oc ==
  /\ plan_weight_size >= args.L2_cache_size
  /\ (self.mb_ % args.num_threads = 0
        \/ divide_and_ceil(self.mb_, args.num_threads) > 8)
  /\ cfg.oc_threads = 1
  /\ plan_splits.oc.num_block_pt = 1

\* the divisors of K_block / im_oc_block that reach weight_size / L2
reaching_divisors ==
  {d \in Divisors(cfg.K_block \div cfg.im_oc_block) :
     d * args.L2_cache_size >= plan_weight_size}

\* C20: in the generic and the row-packed strategy oc_split > 1 only under
\* the four conditions; then it is the smallest divisor of
\* K_block / im_oc_block that is >= ceil(weight_size / L2), or 1 if no
\* divisor reaches that ratio; it always divides K_block / im_oc_block, and
\* the plan has exactly the outer iterations 0 .. oc_split - 1.
C20_OcSplitSmallestReachingDivisor ==
  (emitted /\ plan.strategy \in {"conv_no_padding", "os_blocking"}) =>
    /\ (plan_oc_split > 1 => may_split_oc)
    /\ (may_split_oc =>
          plan_oc_split = IF reaching_divisors = {} THEN 1
                          ELSE SetMin(reaching_divisors))
    /\ (cfg.K_block \div cfg.im_oc_block) % plan_oc_split = 0
    /\ {cl.outer_k : cl \in plan.calls} = 0..(plan_oc_split - 1)

\* a split that is larger than the ratio because the ratio is no divisor
C20_Witness ==
  /\ emitted /\ plan.strategy \in {"conv_no_padding", "os_blocking"}
  /\ plan_oc_split > 1
  /\ (plan_oc_split - 1) * args.L2_cache_size >= plan_weight_size
  /\ {cl.outer_k : cl \in plan.calls} = 0..(plan_oc_split - 1)

\* the fixed fusion order: outer split, batch, height, width (or the
\* flattened spatial axis), output channel, input channel
fusion_order == <<"lok", "lpbs", "lph", "lpw", "lps", "lpoc", "lpic">>

in_plan_loops(l) == \E i \in DOMAIN plan.loops : plan.loops[i] = l

\* C16: schedule_loops accepts the loop list of each of the four strategies
\* and fuses its thread axes in the fixed order, skipping the axes the
\* strategy does not have.
C16_ScheduleAcceptsEveryStrategy ==
  pc \in {"scheduled", "sched_error"} =>
    /\ sched.ok
    /\ sched.fused = SelectSeq(fusion_order, in_plan_loops)

C14_Witness ==
  /\ emitted /\ plan.strategy = "os_blocking" /\ idle_threads
  /\ plan.calls # {}
  /\ \A cl \in plan.calls : active_thread(cl.ph, cl.pw, cl.poc, cl.pic)

\* the row width of the flattened axis of the row-packed strategy
adj_ow == self.ow_ + self.num_elems_skip_per_ow_

\* flattened position p is a real output position, not a skipped one
valid_pos(p) == p % adj_ow < self.ow_

\* the flattened positions of micro-block i
block_positions(i) == (i * cfg.im_w_block)..((i + 1) * cfg.im_w_block - 1)

valid_below(p) == {x \in 0..(p - 1) : valid_pos(x)}

\* the row-major output position of flattened position p
row_major(p) == (p \div adj_ow) * self.ow_ + (p % adj_ow)

\* where a masked call stores the row of position p: the valid rows follow
\* each other from the call's destination
stored_at(cl, p) ==
  cl.q0 + Cardinality({x \in block_positions(cl.idx) : x < p /\ valid_pos(x)})

\* C21: in the row-packed strategy a call on micro-block i stores the
\* positions p of the block with p % adj_ow < ow, starting at output
\* (row, column) = (os_acc_size[i] / ow, os_acc_size[i] % ow), where
\* os_acc_size[i] is the number of valid positions below i * im_s_block;
\* every valid position lands on its row-major output position, and the
\* valid positions of all micro-blocks are exactly the oh * ow positions.
C21_RowPackedPositions ==
  (emitted /\ plan.strategy = "os_blocking") =>
    /\ \A cl \in plan.calls :
         ~cl.oob =>
           /\ cl.M = Cardinality({p \in block_positions(cl.idx) : valid_pos(p)})
           /\ cl.q0 = Cardinality(valid_below(cl.idx * cfg.im_w_block))
           /\ cl.h = cl.q0 \div self.ow_ /\ cl.w = cl.q0 % self.ow_
           /\ \A p \in block_positions(cl.idx) :
                valid_pos(p) => stored_at(cl, p) = row_major(p)
    /\ {row_major(p) : p \in valid_below(self.adj_os_)}
         = 0..(self.oh_ * self.ow_ - 1)
    /\ Cardinality(valid_below(self.adj_os_)) = self.oh_ * self.ow_

\* a second micro-block whose valid positions lie in two output rows
C21_Witness ==
  /\ emitted /\ plan.strategy = "os_blocking"
  /\ \E cl \in plan.calls :
       /\ ~cl.oob /\ cl.idx > 0
       /\ \E p \in block_positions(cl.idx), q \in block_positions(cl.idx) :
            /\ valid_pos(p) /\ valid_pos(q) /\ p \div adj_ow < q \div adj_ow
            /\ stored_at(cl, q) = row_major(q)

\* C22: in the row-packed strategy every valid position p of a micro-block,
\* also one in a later output row than the block's first position, is fed
\* for each kernel tap (r, s) the input at row (p / adj_ow) * sh + r and
\* column (p % adj_ow) * sw + s, whatever the strides and the kernel width.
C22_RowPackedInputWindow ==
  (emitted /\ plan.strategy = "os_blocking") =>
    \A cl \in plan.calls :
      ~cl.oob =>
        \A j \in 0..(cfg.im_w_block - 1) :
          LET p == cl.idx * cfg.im_w_block + j
          IN valid_pos(p) =>
               \A r \in 0..(self.kh_ - 1), s \in 0..(self.kw_ - 1) :
                 a_pos_os_blocking(self, cfg, cl, j, r, s)
                   = <<(p \div adj_ow) * self.sh_ + r,
                       (p % adj_ow) * self.sw_ + s>>

\* the number of micro-blocks of the flattened axis
os_num_block == self.adj_os_ \div cfg.im_w_block

\* the micro-block index under which a tile anchor of the row-packed plan
\* is published
anchor_idx(a) ==
  blk_index(a.at[3], plan_splits.os.num_block_pt, cfg.w_block, cfg.im_w_block,
            a.at[6], a.at[10])

\* the output positions (row-major) of the rows and columns an anchor names
anchor_positions(a) ==
  {h * self.ow_ + w : h \in a.h0..(a.h0 + a.hn - 1),
                      w \in a.w0..(a.w0 + a.wn - 1)}

\* the output positions micro-block i writes
block_writes(i) == {row_major(p) : p \in {x \in block_positions(i) : valid_pos(x)}}

in_range_tile(a) == a.level = "tile" /\ anchor_idx(a) < os_num_block

\* C23: in the row-packed strategy a tile anchor is published only when
\* oh % nb = 0 for nb = os / im_s_block; the anchor after micro-block i
\* names rows [i * (oh / nb), (i + 1) * (oh / nb)) over the full width, and
\* these are exactly the output positions that micro-block writes.
C23_RowPackedTileAnchor ==
  (emitted /\ plan.strategy = "os_blocking") =>
    \A a \in plan.anchors :
      in_range_tile(a) =>
        /\ self.oh_ % os_num_block = 0
        /\ a.h0 = anchor_idx(a) * (self.oh_ \div os_num_block)
        /\ a.hn = self.oh_ \div os_num_block
        /\ a.w0 = 0 /\ a.wn = self.ow_
        /\ anchor_positions(a) = block_writes(anchor_idx(a))
        /\ \E cl \in plan.calls :
             /\ cl.idx = anchor_idx(a) /\ cl.n = a.n
             /\ cl.oc * cfg.im_oc_block = a.c0
             /\ anchor_positions(a) = cl.q0..(cl.q0 + cl.M - 1)

\* the anchor after the second of several micro-blocks
C23_Witness ==
  /\ emitted /\ plan.strategy = "os_blocking"
  /\ \E a \in plan.anchors :
       /\ in_range_tile(a) /\ anchor_idx(a) > 0
       /\ anchor_positions(a) = block_writes(anchor_idx(a))

\* the anchors the same emitter publishes for the other output layout
anchors_other_layout ==
  generate([self EXCEPT !.blocking_output_ = ~self.blocking_output_],
           cfg, args, args.fusion).anchors

\* C25: at every anchor level the region published for a blocked output
\* names the same output elements as the region published for a plain
\* output; the anchor after the loop over the output-channel micro-blocks
\* of one outer block names all K_block channels in both layouts.
C25_AnchorsSameInBothLayouts ==
  (emitted /\ args.fusion /\ plan.strategy # "none") =>
    /\ plan.anchors = anchors_other_layout
    /\ \A a \in plan.anchors : a.level = "lioc" => a.cn = cfg.K_block

\* the destination tile of a call lies inside the output tensor; a call
\* whose micro-block index is out of range has no defined destination
call_inside(cl) ==
  /\ ~cl.oob
  /\ cl.n < self.mb_
  /\ (cl.oc + 1) * cfg.im_oc_block <= self.oc_
  /\ cl.h < self.oh_ /\ cl.w < self.ow_
  /\ cl.q0 + cl.M <= self.oh_ * self.ow_

anchor_inside(a) ==
  /\ a.n < self.mb_
  /\ a.c0 + a.cn <= self.oc_
  /\ a.h0 + a.hn <= self.oh_
  /\ a.w0 + a.wn <= self.ow_

\* C26: in every emitted plan the destination tile of every call and the
\* region of every published anchor lie inside the output tensor: batch
\* below mb, channels up to oc, rows up to oh, columns up to ow.
C26_TilesAndRegionsInside ==
  (emitted /\ plan.strategy # "none") =>
    /\ \A cl \in plan.calls : call_inside(cl)
    /\ \A a \in plan.anchors : anchor_inside(a)

zero_block(c) == \E b \in BlockSizes : c[b] = 0

\* C30: a supplied Configuration with a block size of zero is rejected by
\* generate with a configuration error, before a division or modulo by that
\* value is evaluated and before any loop is emitted.
C30_ZeroBlockRejected ==
  (pc \notin {"start", "constructed", "ctor_error", "configured"}
     /\ zero_block(cfg))
    => /\ pc = "gen_error"
       /\ plan.error # "division by zero"
       /\ plan.built \cap {"pack_copy_loops", "loop_nest"} = {}

(***************************************************************************)
(* Specification SpecRun: an emitted plan runs one event at a time.  The   *)
(* emitters declare the loops lok and lpbs PARALLEL (lines 469, 846, 1251, *)
(* 1252, 1550, 1551); every other loop is sequential.  Each iteration      *)
(* (outer_k, pbs) of the parallel loops performs its micro-kernel calls    *)
(* and anchor publications in the order of the loop nest, and the          *)
(* iterations interleave freely.                                           *)
(***************************************************************************)
\* <<mb, kernel, stride, input is 8-bit, machine has AMX, L2 size>>
RunKinds ==
  {<<2, 1, 1, FALSE, FALSE, 4096>>, <<2, 1, 2, FALSE, FALSE, 4096>>,
   <<2, 2, 1, FALSE, FALSE, 4096>>, <<1, 2, 1, FALSE, FALSE, 32>>,
   <<2, 2, 2, TRUE, TRUE, 4096>>, <<1, 2, 2, TRUE, TRUE, 8>>}

\* problems of 2 input channels, 2 output channels and a 2x2 output with a
\* fusion consumer attached, on one thread
RunProblems ==
  {conv_args(4, rk[1], 2, 2, <<1, 2, 2>>, <<1, rk[2], rk[2]>>,
             <<1, rk[3], rk[3]>>, <<0, 0, 0>>, rk[4], FALSE, bout,
             [num_threads |-> 1, use_amx |-> rk[5], L2_cache_size |-> rk[6],
              fusion |-> TRUE]) :
     rk \in RunKinds, bout \in BOOLEAN}

InitRun ==
  /\ pc = "start"
  /\ self = NoSelf /\ cfg = NoCfg /\ plan = NoPlan /\ run = NoRun
  /\ part = NoPart /\ cfg_again = NoCfg /\ sched = NoSched
  /\ args \in RunProblems

\* the position of a call in the loop nest of its emitter; the row-packed
\* emitter nests lioc outside lis.  The last entry orders a call before the
\* anchor created right after it.
call_key(strategy, cl) ==
  IF strategy = "os_blocking"
  THEN <<cl.outer_k, cl.pbs, 0, cl.pw, cl.poc, cl.pic, 0, cl.o_w, cl.o_oc,
         cl.o_ic, 0, cl.i_oc, cl.i_w, 0, 0>>
  ELSE loop_key(cl) \o <<0>>

\* an anchor created in the body of a loop, after the loops nested in that
\* body: it follows every event under the same outer indices
RECURSIVE after_inner(_)
after_inner(at) ==
  IF Len(at) >= 14 THEN at \o <<1>> ELSE after_inner(at \o <<1000>>)

anchor_key(strategy, a) ==
  IF strategy = "os_blocking"
  THEN (IF a.level = "tile"
        THEN <<a.at[1], a.at[2], 0, a.at[3], a.at[4], a.at[5], 0, a.at[6],
               a.at[7], a.at[8], 0, a.at[9], a.at[10], 0, 1>>
        ELSE IF Len(a.at) = 2 THEN after_inner(a.at)
        ELSE after_inner(<<a.at[1], a.at[2], 0>> \o SubSeq(a.at, 3, Len(a.at))))
  ELSE after_inner(a.at)

\* the iteration of the parallel loops an event belongs to
iteration_of(key) == <<key[1], key[2]>>

\* the keys of a set of events in the order of the loop nest
RECURSIVE in_order(_)
in_order(K) ==
  IF K = {} THEN <<>>
  ELSE LET first == CHOOSE x \in K : \A y \in K \ {x} : lex_less(x, y, 1)
       IN <<first>> \o in_order(K \ {first})

\* the events of the plan, by key
event_keys(p) ==
  {call_key(p.strategy, cl) : cl \in p.calls}
    \cup {anchor_key(p.strategy, a) : a \in p.anchors}

\* the configurations run: the whole width per call, one row per call; the
\* output channels unblocked, in blocks of one, or split over two threads;
\* the input channels in one outer block or in two; for the row-packed
\* strategy also the flattened axis in two micro-blocks; for a 1x1 kernel
\* both values of the pack flag
RunConfigs(f, m) ==
  LET OC == {[blk |-> f.oc_, im |-> f.oc_, thr |-> 1],
             [blk |-> f.oc_, im |-> 1, thr |-> 1],
             [blk |-> 1, im |-> 1, thr |-> 2]}
      IC == {[blk |-> f.ic_, im |-> 1, thr |-> 1],
             [blk |-> 1, im |-> 1, thr |-> 1]}
      W == {[blk |-> f.ow_, im |-> f.ow_, thr |-> 1]}
             \cup (IF f.try_os_blocking_ /\ m.use_amx
                   THEN {[blk |-> f.adj_os_, im |-> f.adj_os_ \div 2, thr |-> 1],
                         [blk |-> f.adj_os_ \div 2, im |-> f.adj_os_ \div 2,
                          thr |-> 2]}
                   ELSE {})
      P == IF f.is_1x1_conv_ THEN {0, 1} ELSE {1}
  IN {mk_config(a_oc, BaseAxis(f.oh_), a_w, a_ic, pack) :
        a_oc \in OC, a_w \in W, a_ic \in IC, pack \in P}

\* The caller hands one of the configurations to generate.
SupplyRunConfig ==
  /\ pc = "constructed"
  /\ cfg' \in RunConfigs(self, args)
  /\ pc' = "configured"
  /\ UNCHANGED <<args, self, plan, run, part, cfg_again, sched>>

\* The plan is handed to the thread pool: every parallel iteration gets its
\* events in the order of the loop nest.
RunStart ==
  /\ pc = "generated"
  /\ \A cl \in plan.calls : ~cl.oob
  /\ pc' = "running"
  /\ run' = [rest |-> [it \in {iteration_of(k) : k \in event_keys(plan)} |->
                         in_order({k \in event_keys(plan) :
                                     iteration_of(k) = it})],
             done |-> {}, published |-> {}]
  /\ UNCHANGED <<args, self, cfg, plan, part, cfg_again, sched>>

\* the iterations whose next event is a call (last entry 0) or an anchor (1)
ready(kind) ==
  {it \in DOMAIN run.rest : run.rest[it] # <<>> /\ Head(run.rest[it])[15] = kind}

\* Some parallel iteration performs its next micro-kernel call.
RunCall ==
  /\ pc = "running"
  /\ run' \in {[rest |-> [run.rest EXCEPT ![it] = Tail(@)],
                done |-> run.done \cup
                           {cl \in plan.calls :
                              call_key(plan.strategy, cl) = Head(run.rest[it])},
                published |-> run.published] : it \in ready(0)}
  /\ UNCHANGED <<pc, args, self, cfg, plan, part, cfg_again, sched>>

\* Some parallel iteration publishes its next anchor.
RunPublish ==
  /\ pc = "running"
  /\ run' \in {[rest |-> [run.rest EXCEPT ![it] = Tail(@)],
                done |-> run.done,
                published |-> run.published \cup
                           {a \in plan.anchors :
                              anchor_key(plan.strategy, a) = Head(run.rest[it])}] :
                 it \in ready(1)}
  /\ UNCHANGED <<pc, args, self, cfg, plan, part, cfg_again, sched>>

NextRun ==
  \/ Construct
  \/ SupplyRunConfig
  \/ Generate
  \/ RunStart
  \/ RunCall
  \/ RunPublish

SpecRun == InitRun /\ [][NextRun]_vars

\* the call stores to an element of the region the anchor names
writes_into(cl, a) ==
  /\ cl.n = a.n
  /\ cl.oc * cfg.im_oc_block < a.c0 + a.cn
  /\ a.c0 < (cl.oc + 1) * cfg.im_oc_block
  /\ \E q \in cl.q0..(cl.q0 + cl.M - 1) :
       /\ a.h0 <= q \div self.ow_ /\ q \div self.ow_ < a.h0 + a.hn
       /\ a.w0 <= q % self.ow_ /\ q % self.ow_ < a.w0 + a.wn

\* C24: while a plan runs, under every interleaving of the parallel
\* iterations, every call that writes an element of a published region has
\* completed: no call writes into a region after its publication.
C24_PublishAfterAllWrites ==
  pc = "running" =>
    \A a \in run.published : \A cl \in plan.calls :
      writes_into(cl, a) => cl \in run.done

(***************************************************************************)
(* Specification SpecSplit: the partition as a pure function of            *)
(* (total, thread_count).                                                  *)
(***************************************************************************)
MaxTotal == 8

MaxThreads == 8

InitSplit ==
  /\ pc = "split_start"
  /\ args = NoArgs /\ self = NoSelf /\ cfg = NoCfg /\ plan = NoPlan /\ run = NoRun
  /\ cfg_again = NoCfg /\ sched = NoSched
  /\ \E total \in 1..MaxTotal, thread_count \in 1..MaxThreads :
       part = [total |-> total, thread_count |-> thread_count]

Partition ==
  /\ pc = "split_start"
  /\ pc' = "split_done"
  /\ part' = [total |-> part.total, thread_count |-> part.thread_count,
               res |-> block_split(part.total, part.thread_count)]
  /\ UNCHANGED <<args, self, cfg, plan, run, cfg_again, sched>>

NextSplit == Partition

SpecSplit == InitSplit /\ [][NextSplit]_vars

\* C6: used_threads * blocks_per_thread >= total and
\*     used_threads * blocks_per_thread - blocks_per_thread < total,
\*     for every total >= 1 and thread_count >= 1.
C6_PartitionCovers ==
  pc = "split_done" =>
    /\ part.res.used_threads * part.res.num_block_pt >= part.total
    /\ part.res.used_threads * part.res.num_block_pt - part.res.num_block_pt
         < part.total

\* C7: the tail share of the last active thread is between 1 and the regular
\*     share, and equals total when thread_count = 1.
C7_TailInRange ==
  pc = "split_done" =>
    /\ 1 <= part.res.tail_num_block_pt
    /\ part.res.tail_num_block_pt <= part.res.num_block_pt
    /\ (part.thread_count = 1 => part.res.tail_num_block_pt = part.total)

=============================================================================
